---- MODULE Spec2Model ----
(***************************************************************************)
(* CareerAgent: the scoring and matching engine (scoring_agent.py and the  *)
(* utils it calls), the jobs / resume_profiles tables it works on, and the *)
(* handlers that write those tables (run_search, update_status,            *)
(* update_recruiter_email, send_cold_email, upload_resume, _daily_job).    *)
(*                                                                         *)
(* Representation.                                                         *)
(*  - A Python str that the code inspects (lower, strip, split, `in`) is a *)
(*    sequence of one-character strings; a str that is only compared or    *)
(*    tested for emptiness (status, recruiter_email, source) is a string.  *)
(*  - A float score is an exact rational [num, den]; den = 0 stands for    *)
(*    the ZeroDivisionError Python raises on a division by zero.  A score  *)
(*    stored in a Float column after round(x, 2) is an integer number of   *)
(*    hundredths (6667 is 66.67).                                          *)
(*  - None is the empty sequence where the code tests `if not x`.          *)
(*                                                                         *)
(* Specifications.                                                         *)
(*  - Spec: one client, each handler from its request to its response.     *)
(*  - SpecRace: the daily job in its own thread, one database statement    *)
(*    at a time, beside the handlers.                                      *)
(*  - SpecFn: the scorers and score_jobs applied to drawn arguments.       *)
(***************************************************************************)
EXTENDS Integers, Sequences, FiniteSets, TLC

(***************************************************************************)
(* Python str operations                                                   *)
(***************************************************************************)
UpperCase == <<"A","B","C","D","E","F","G","H","I","J","K","L","M",
               "N","O","P","Q","R","S","T","U","V","W","X","Y","Z">>
LowerCase == <<"a","b","c","d","e","f","g","h","i","j","k","l","m",
               "n","o","p","q","r","s","t","u","v","w","x","y","z">>
Whitespace == {" ", "\t", "\n"}

\* str.lower() on one character
LowerChar(c) ==
    IF \E i \in 1..Len(UpperCase) : UpperCase[i] = c
    THEN LowerCase[CHOOSE i \in 1..Len(UpperCase) : UpperCase[i] = c]
    ELSE c

\* str.lower()
Lower(s) == [i \in 1..Len(s) |-> LowerChar(s[i])]

RECURSIVE LStrip(_)
LStrip(s) == IF s # <<>> /\ Head(s) \in Whitespace THEN LStrip(Tail(s)) ELSE s

RECURSIVE RStrip(_)
RStrip(s) ==
    IF s # <<>> /\ s[Len(s)] \in Whitespace
    THEN RStrip(SubSeq(s, 1, Len(s) - 1))
    ELSE s

\* str.strip()
Strip(s) == RStrip(LStrip(s))

\* `kw in s` for two str
Contains(s, kw) ==
    \E i \in 1..(Len(s) - Len(kw) + 1) : SubSeq(s, i, i + Len(kw) - 1) = kw

\* any(kw in s for kw in kws)
ContainsAny(s, kws) == \E k \in 1..Len(kws) : Contains(s, kws[k])

\* s.split(","): the list of the pieces between commas, empty pieces kept
RECURSIVE SplitFrom(_, _, _)
SplitFrom(s, i, cur) ==
    IF i > Len(s) THEN <<cur>>
    ELSE IF s[i] = "," THEN <<cur>> \o SplitFrom(s, i + 1, <<>>)
    ELSE SplitFrom(s, i + 1, Append(cur, s[i]))
SplitComma(s) == SplitFrom(s, 1, <<>>)

\* ", ".join(parts)
RECURSIVE JoinCommaSpace(_)
JoinCommaSpace(parts) ==
    IF parts = <<>> THEN <<>>
    ELSE IF Len(parts) = 1 THEN parts[1]
    ELSE parts[1] \o <<",", " ">> \o JoinCommaSpace(Tail(parts))

\* [f(x) for x in xs if keep(x)] for the one shape the code uses:
\* [s.strip().lower() for s in xs if s.strip()]
RECURSIVE StripLowerNonEmpty(_)
StripLowerNonEmpty(xs) ==
    IF xs = <<>> THEN <<>>
    ELSE IF Strip(Head(xs)) # <<>>
         THEN <<Lower(Strip(Head(xs)))>> \o StripLowerNonEmpty(Tail(xs))
         ELSE StripLowerNonEmpty(Tail(xs))

\* set(xs)
ToSet(xs) == {xs[i] : i \in 1..Len(xs)}

\* xs[:n]
Take(xs, n) == SubSeq(xs, 1, IF Len(xs) < n THEN Len(xs) ELSE n)

(***************************************************************************)
(* Floats as exact rationals                                               *)
(***************************************************************************)
Rat(n, d) == [num |-> n, den |-> d]
FromInt(n) == Rat(n, 1)
\* a stored 2-decimal value, in hundredths, read back as a float
FromHundredths(h) == Rat(h, 100)
Raised(r) == r.den = 0
RatGT(a, b) == a.num * b.den > b.num * a.den
RatGE(a, b) == a.num * b.den >= b.num * a.den
RatEQ(a, b) == a.num * b.den = b.num * a.den

\* floor(n / d + 1/2) for n >= 0, d > 0
RoundHalfUp(n, d) == (2 * n + d) \div (2 * d)
IsTie(n, d) == (2 * n) % (2 * d) = d

(***************************************************************************)
(* utils/skill_matcher.py                                                  *)
(***************************************************************************)
\* round(x, 2) of a float whose exact value is not half-way between two
\* hundredths, in hundredths; a raised division stays raised
Round2(x) == IF Raised(x) THEN x ELSE Rat(RoundHalfUp(100 * x.num, x.den), 100)

\* match_skills without the `if req_set else 50.0` of line 27: the division
\* by len(req_set) is raised when only blank entries are required
match_skills_unguarded(user_skills, required_skills) ==
    IF required_skills = <<>>
    THEN [common |-> {}, score |-> Rat(5000, 100)]
    ELSE LET user_set == ToSet(StripLowerNonEmpty(user_skills))
             req_set  == ToSet(StripLowerNonEmpty(required_skills))
             common   == user_set \cap req_set
             score    == Rat(100 * Cardinality(common), Cardinality(req_set))
         IN  [common |-> common, score |-> Round2(score)]

\* match_skills comparing the entries as they are given
match_skills_verbatim(user_skills, required_skills) ==
    IF required_skills = <<>>
    THEN [common |-> {}, score |-> Rat(5000, 100)]
    ELSE LET user_set == ToSet(user_skills)
             req_set  == ToSet(required_skills)
             common   == user_set \cap req_set
             score    == IF req_set # {}
                         THEN Rat(100 * Cardinality(common), Cardinality(req_set))
                         ELSE Rat(50, 1)
         IN  [common |-> common, score |-> Round2(score)]

\* match_skills(user_skills, required_skills) -> (common, score).  `common`
\* is sorted(user_set & req_set): the set, whose sorted list is unique.
match_skills(user_skills, required_skills) ==
    IF required_skills = <<>>
    THEN [common |-> {}, score |-> Rat(5000, 100)]
    ELSE LET user_set == ToSet(StripLowerNonEmpty(user_skills))
             req_set  == ToSet(StripLowerNonEmpty(required_skills))
             common   == user_set \cap req_set
             score    == IF req_set # {}
                         THEN Rat(100 * Cardinality(common), Cardinality(req_set))
                         ELSE Rat(50, 1)
         IN  [common |-> common, score |-> Round2(score)]

(***************************************************************************)
(* utils/confidence_calculator.py                                          *)
(***************************************************************************)
\* calculate_confidence with the weights 0.5, 0.3 and 0.3
calculate_confidence_heavy(skill_match, domain_match, experience_match) ==
    Rat(  5 * skill_match.num * domain_match.den * experience_match.den
        + 3 * domain_match.num * skill_match.den * experience_match.den
        + 3 * experience_match.num * skill_match.den * domain_match.den,
        10 * skill_match.den * domain_match.den * experience_match.den)

\* calculate_confidence with the experience term subtracted
calculate_confidence_penalising(skill_match, domain_match, experience_match) ==
    Rat(  5 * skill_match.num * domain_match.den * experience_match.den
        + 3 * domain_match.num * skill_match.den * experience_match.den
        - 2 * experience_match.num * skill_match.den * domain_match.den,
        10 * skill_match.den * domain_match.den * experience_match.den)

\* 0.5 * skill_match + 0.3 * domain_match + 0.2 * experience_match
calculate_confidence(skill_match, domain_match, experience_match) ==
    Rat(  5 * skill_match.num * domain_match.den * experience_match.den
        + 3 * domain_match.num * skill_match.den * experience_match.den
        + 2 * experience_match.num * skill_match.den * domain_match.den,
        10 * skill_match.den * domain_match.den * experience_match.den)

(***************************************************************************)
(* utils/reputation_score.py                                               *)
(***************************************************************************)
TIER_1_KEYWORDS ==
    <<<<"i","i","t">>, <<"i","i","s","c">>,
      <<"i","s","r","o">>, <<"d","r","d","o">>,
      <<"g","o","o","g","l","e">>, <<"m","i","c","r","o","s","o","f","t">>,
      <<"a","p","p","l","e">>,
      <<"m","e","t","a">>, <<"a","m","a","z","o","n">>,
      <<"n","v","i","d","i","a">>,
      <<"o","p","e","n","a","i">>, <<"d","e","e","p","m","i","n","d">>>>

TIER_2_KEYWORDS ==
    <<<<"i","b","m">>, <<"o","r","a","c","l","e">>,
      <<"s","a","p">>, <<"i","n","t","e","l">>,
      <<"c","i","s","c","o">>, <<"a","d","o","b","e">>,
      <<"s","a","l","e","s","f","o","r","c","e">>, <<"s","a","m","s","u","n","g">>,
      <<"s","o","n","y">>, <<"t","c","s">>,
      <<"i","n","f","o","s","y","s">>, <<"w","i","p","r","o">>,
      <<"h","c","l">>, <<"a","c","c","e","n","t","u","r","e">>,
      <<"d","e","l","o","i","t","t","e">>, <<"e","y">>,
      <<"k","p","m","g">>, <<"p","w","c">>,
      <<"m","c","k","i","n","s","e","y">>, <<"b","c","g">>,
      <<"b","a","i","n">>, <<"g","o","l","d","m","a","n"," ","s","a","c","h","s">>,
      <<"m","o","r","g","a","n"," ","s","t","a","n","l","e","y">>, <<"j","p","m","o","r","g","a","n">>>>

TIER_3_KEYWORDS ==
    <<<<"s","t","a","r","t","u","p">>, <<"f","u","n","d","e","d">>,
      <<"y","c","o","m","b","i","n","a","t","o","r">>, <<"y"," ","c","o","m","b","i","n","a","t","o","r">>,
      <<"s","e","q","u","o","i","a">>, <<"s","e","r","i","e","s"," ","a">>,
      <<"s","e","r","i","e","s"," ","b">>, <<"b","a","c","k","e","d">>,
      <<"v","e","n","t","u","r","e">>>>

\* get_reputation_score on a scale of ten
get_reputation_score_out_of_ten(company) ==
    LET name == Lower(Strip(company))
    IN  IF ContainsAny(name, TIER_1_KEYWORDS) THEN Rat(95, 10)
        ELSE IF ContainsAny(name, TIER_2_KEYWORDS) THEN Rat(85, 10)
        ELSE IF ContainsAny(name, TIER_3_KEYWORDS) THEN Rat(75, 10)
        ELSE FromInt(6)

\* get_reputation_score with the tiers tested from the third to the first
get_reputation_score_lowest_first(company) ==
    LET name == Lower(Strip(company))
    IN  IF ContainsAny(name, TIER_3_KEYWORDS) THEN FromInt(75)
        ELSE IF ContainsAny(name, TIER_2_KEYWORDS) THEN FromInt(85)
        ELSE IF ContainsAny(name, TIER_1_KEYWORDS) THEN FromInt(95)
        ELSE FromInt(60)

get_reputation_score(company) ==
    LET name == Lower(Strip(company))
    IN  IF ContainsAny(name, TIER_1_KEYWORDS) THEN FromInt(95)
        ELSE IF ContainsAny(name, TIER_2_KEYWORDS) THEN FromInt(85)
        ELSE IF ContainsAny(name, TIER_3_KEYWORDS) THEN FromInt(75)
        ELSE FromInt(60)

(***************************************************************************)
(* agents/scoring_agent.py: the scorers                                    *)
(***************************************************************************)
\* sum(1 for d in profile_domains if d.lower() in job_lower)
RECURSIVE CountDomains(_, _)
CountDomains(profile_domains, job_lower) ==
    IF profile_domains = <<>> THEN 0
    ELSE (IF Contains(job_lower, Lower(Head(profile_domains))) THEN 1 ELSE 0)
         + CountDomains(Tail(profile_domains), job_lower)

\* _domain_match_score returning the neutral 50.0 when no domain is named
domain_match_score_neutral_on_miss(profile_domains, job_skills_str) ==
    IF CountDomains(profile_domains, Lower(job_skills_str)) = 0
    THEN FromInt(50)
    ELSE Rat(100 * CountDomains(profile_domains, Lower(job_skills_str)),
             Len(profile_domains))

\* _domain_match_score searching the text as it is stored, not lowercased
domain_match_score_cased(profile_domains, job_skills_str) ==
    IF profile_domains = <<>> THEN FromInt(50)
    ELSE Rat(100 * CountDomains(profile_domains, job_skills_str),
             Len(profile_domains))

domain_match_score(profile_domains, job_skills_str) ==
    IF profile_domains = <<>> THEN FromInt(50)
    ELSE LET job_lower == Lower(job_skills_str)
             matches   == CountDomains(profile_domains, job_lower)
         IN  IF profile_domains # <<>>
             THEN Rat(100 * matches, Len(profile_domains))
             ELSE FromInt(50)

\* ["intern", "junior", "trainee", "fresher"]
ENTRY_ROLE_KEYWORDS ==
    <<<<"i","n","t","e","r","n">>, <<"j","u","n","i","o","r">>,
      <<"t","r","a","i","n","e","e">>, <<"f","r","e","s","h","e","r">>>>
\* ["senior", "lead", "principal", "staff"]
SENIOR_ROLE_KEYWORDS ==
    <<<<"s","e","n","i","o","r">>, <<"l","e","a","d">>,
      <<"p","r","i","n","c","i","p","a","l">>, <<"s","t","a","f","f">>>>

\* _experience_match_score with the senior keywords tested first
experience_match_score_senior_first(profile_level, role) ==
    LET role_lower == Lower(role)
        level      == Lower(profile_level)
    IN  IF ContainsAny(role_lower, SENIOR_ROLE_KEYWORDS)
        THEN (IF level = <<"s","e","n","i","o","r">> THEN FromInt(100) ELSE FromInt(50))
        ELSE IF ContainsAny(role_lower, ENTRY_ROLE_KEYWORDS)
        THEN (IF level = <<"e","n","t","r","y">> THEN FromInt(100) ELSE FromInt(60))
        ELSE FromInt(80)

experience_match_score(profile_level, role) ==
    LET role_lower == Lower(role)
        level      == Lower(profile_level)
    IN  IF ContainsAny(role_lower, ENTRY_ROLE_KEYWORDS)
        THEN (IF level = <<"e","n","t","r","y">> THEN FromInt(100) ELSE FromInt(60))
        ELSE IF ContainsAny(role_lower, SENIOR_ROLE_KEYWORDS)
        THEN (IF level = <<"s","e","n","i","o","r">> THEN FromInt(100) ELSE FromInt(50))
        ELSE FromInt(80)

\* _categorize with 80 on the side of "High Priority"
categorize_inclusive(confidence) ==
    IF RatGE(confidence, FromInt(80)) THEN "High Priority"
    ELSE IF RatGE(confidence, FromInt(60)) THEN "Good Match"
    ELSE "Stretch"

categorize(confidence) ==
    IF RatGT(confidence, FromInt(80)) THEN "High Priority"
    ELSE IF RatGE(confidence, FromInt(60)) THEN "Good Match"
    ELSE "Stretch"

\* MANUAL_STATUSES without the status send_cold_email writes
MANUAL_STATUSES_BY_HAND ==
    {"Applied", "Interview", "Rejected", "Accepted", "Not Applied"}

MANUAL_STATUSES ==
    {"Applied", "Interview", "Rejected", "Accepted", "Emailed", "Not Applied"}

(***************************************************************************)
(* Inputs                                                                  *)
(***************************************************************************)
\* parse_resume of two resumes.  ProfileA: the text is "cybersecurity",
\* "data engineering", with no role or seniority keyword (the defaults
\* apply).  ProfileB: the text is "cybersecurity", "etl", "lead".
\* detect_skills finds "c" and "r" in both, as substrings.
ProfileA ==
    [skills           |-> <<<<"c">>, <<"c","y","b","e","r","s","e","c","u","r","i","t","y">>,
                            <<"d","a","t","a"," ","e","n","g","i","n","e","e","r","i","n","g">>, <<"r">>>>,
     domains          |-> <<<<"d","a","t","a"," ","e","n","g","i","n","e","e","r","i","n","g">>,
                            <<"c","y","b","e","r","s","e","c","u","r","i","t","y">>>>,
     experience_level |-> <<"E","n","t","r","y">>,
     preferred_roles  |-> <<<<"S","o","f","t","w","a","r","e"," ","E","n","g","i","n","e","e","r">>>>]
ProfileB ==
    [skills           |-> <<<<"c">>, <<"c","y","b","e","r","s","e","c","u","r","i","t","y">>,
                            <<"e","t","l">>, <<"r">>>>,
     domains          |-> <<<<"d","a","t","a"," ","e","n","g","i","n","e","e","r","i","n","g">>,
                            <<"c","y","b","e","r","s","e","c","u","r","i","t","y">>>>,
     experience_level |-> <<"S","e","n","i","o","r">>,
     preferred_roles  |-> <<<<"S","o","f","t","w","a","r","e"," ","E","n","g","i","n","e","e","r">>>>]
Resumes == {ProfileA, ProfileB}

\* What the portals list.  Listing3 is Listing1 in another casing: the same
\* job_hash.
Listing1 ==
    [company |-> <<"G","o","o","g","l","e">>, role |-> <<"M","L"," ","I","n","t","e","r","n">>,
     link |-> <<"h","t","t","p",":","/","/","g","/","1">>, source |-> "LinkedIn",
     recruiter_email |-> "hr@google.com"]
Listing2 ==
    [company |-> <<"A","c","m","e"," ","L","a","b","s">>,
     role |-> <<"S","e","n","i","o","r"," ","S","t","a","f","f"," ","E","n","g","i","n","e","e","r">>,
     link |-> <<"h","t","t","p",":","/","/","a","/","2">>, source |-> "Indeed",
     recruiter_email |-> ""]
Listing3 ==
    [company |-> <<"G","O","O","G","L","E">>, role |-> <<"m","l"," ","i","n","t","e","r","n">>,
     link |-> <<"h","t","t","p",":","/","/","g","/","1">>, source |-> "Glassdoor",
     recruiter_email |-> ""]
Listings == {Listing1, Listing2, Listing3}

\* the status values a client sends to PUT /update-status
StatusInputs == {"Applied", "Saved"}
\* the addresses a client sends to PUT /update-recruiter-email and POST
\* /send-email
EmailInputs == {"hr@acme.io"}

\* the longest list of listings one search scrapes
MaxBatch == 2
Batches == UNION {[1..n -> Listings] : n \in 0..MaxBatch}

(***************************************************************************)
(* agents/search_agent.py                                                  *)
(***************************************************************************)
PRIORITY_SKILLS ==
    <<<<"p","y","t","h","o","n">>, <<"j","a","v","a">>,
      <<"j","a","v","a","s","c","r","i","p","t">>, <<"r","e","a","c","t">>,
      <<"n","o","d","e",".","j","s">>, <<"d","j","a","n","g","o">>,
      <<"f","l","a","s","k">>, <<"f","a","s","t","a","p","i">>,
      <<"s","p","r","i","n","g">>, <<"m","a","c","h","i","n","e"," ","l","e","a","r","n","i","n","g">>,
      <<"d","e","e","p"," ","l","e","a","r","n","i","n","g">>, <<"d","o","c","k","e","r">>,
      <<"k","u","b","e","r","n","e","t","e","s">>, <<"a","w","s">>,
      <<"d","a","t","a"," ","s","c","i","e","n","c","e">>, <<"t","y","p","e","s","c","r","i","p","t">>,
      <<"g","o">>, <<"r","u","s","t">>,
      <<"a","n","g","u","l","a","r">>, <<"v","u","e">>,
      <<"n","e","x","t",".","j","s">>, <<"p","y","t","o","r","c","h">>,
      <<"t","e","n","s","o","r","f","l","o","w">>>>

\* [s for s in skills if s in PRIORITY_SKILLS]
RECURSIVE FilterPriority(_)
FilterPriority(skills) ==
    IF skills = <<>> THEN <<>>
    ELSE IF Head(skills) \in ToSet(PRIORITY_SKILLS)
         THEN <<Head(skills)>> \o FilterPriority(Tail(skills))
         ELSE FilterPriority(Tail(skills))

build_search_keywords(profile) ==
    LET from_profile == Take(profile.preferred_roles, 3) \o Take(profile.domains, 2)
        priority     == FilterPriority(profile.skills)
        fallback     == IF priority # <<>> THEN Take(priority, 4)
                        ELSE Take(profile.skills, 3)
        keywords     == IF from_profile # <<>> THEN from_profile ELSE fallback
    IN  IF keywords # <<>> THEN keywords
        ELSE <<<<"s","o","f","t","w","a","r","e"," ","e","n","g","i","n","e","e","r">>>>

\* sha256 of "company|role|link", each stripped and lowercased.  The digest
\* is the string it is taken of: two different strings get different
\* digests.
generate_hash(company, role, link) ==
    Lower(Strip(company)) \o <<"|">> \o Lower(Strip(role)) \o <<"|">>
        \o Lower(Strip(link))

job_exists(table, job_hash) == \E k \in 1..Len(table) : table[k].job_hash = job_hash

\* generate_hash as a table over what the portals list
HashTable ==
    [company \in {l.company : l \in Listings} |->
        [role \in {l.role : l \in Listings} |->
            [link \in {l.link : l \in Listings} |->
                generate_hash(company, role, link)]]]

\* every scraper sets "required_skills": ", ".join(keywords)
Scraped(listing, keywords) ==
    [company |-> listing.company, role |-> listing.role, link |-> listing.link,
     source |-> listing.source, recruiter_email |-> listing.recruiter_email,
     required_skills |-> JoinCommaSpace(keywords)]

\* build_search_keywords and the scrapers' required_skills, as tables over
\* the resumes
KeywordsTable == [profile \in Resumes |-> build_search_keywords(profile)]
ScrapedTable ==
    [profile \in Resumes |->
        [listing \in Listings |-> Scraped(listing, KeywordsTable[profile])]]

\* Step 1 of search_jobs: the raw listings to insert, with their hashes
RECURSIVE NewJobsToScrape(_, _, _)
NewJobsToScrape(all_raw, seen_hashes, table) ==
    IF all_raw = <<>> THEN <<>>
    ELSE LET raw      == Head(all_raw)
             job_hash == HashTable[raw.company][raw.role][raw.link]
         IN  IF job_hash \in seen_hashes
             THEN NewJobsToScrape(Tail(all_raw), seen_hashes, table)
             ELSE IF job_exists(table, job_hash)
             THEN NewJobsToScrape(Tail(all_raw), seen_hashes \cup {job_hash}, table)
             ELSE <<[raw |-> raw, job_hash |-> job_hash]>>
                  \o NewJobsToScrape(Tail(all_raw), seen_hashes \cup {job_hash}, table)

\* _scrape_recruiter_email(link, source): what the job page of the link
\* shows.  The page of Listing2 shows an address, the others none.
scrape_recruiter_email(link, source) ==
    IF link = Listing2.link THEN "hr@acme.io" ELSE ""

\* Step 2 of search_jobs, fetch_email: the listing's own address, else the
\* one of the job page
fetch_email(raw_job) ==
    IF raw_job.recruiter_email = "" /\ raw_job.link # <<>>
    THEN scrape_recruiter_email(raw_job.link, raw_job.source)
    ELSE raw_job.recruiter_email

\* Job(...) with a neutral confidence in the place of 0.0
NewJobPrescored(item) ==
    [company          |-> item.raw.company,
     role             |-> item.raw.role,
     required_skills  |-> <<item.raw.required_skills>>,
     link             |-> item.raw.link,
     confidence_score |-> 5000,
     reputation_score |-> 0,
     status           |-> "New",
     source           |-> item.raw.source,
     job_hash         |-> item.job_hash,
     recruiter_email  |-> fetch_email(item.raw)]

\* Step 3 of search_jobs: Job(...) for one new listing
NewJob(item) ==
    [company          |-> item.raw.company,
     role             |-> item.raw.role,
     required_skills  |-> <<item.raw.required_skills>>,
     link             |-> item.raw.link,
     confidence_score |-> 0,
     reputation_score |-> 0,
     status           |-> "New",
     source           |-> item.raw.source,
     job_hash         |-> item.job_hash,
     recruiter_email  |-> fetch_email(item.raw)]

NewJobs(items) == [i \in 1..Len(items) |-> NewJob(items[i])]

(***************************************************************************)
(* agents/scoring_agent.py: score_jobs                                     *)
(***************************************************************************)
\* The double that 0.5*s + 0.3*d + 0.2*e evaluates to is not the exact sum.
\* The difference shows only when the exact sum lies half-way between two
\* hundredths, where round(confidence, 2) goes to the side the double is on.
\* Evaluated in IEEE-754 doubles for every skill score round(c/r*100, 2) with
\* r <= 6, every domain score m/n*100 with n <= 8 and every experience score
\* of the rule table, the double lies above the exact sum exactly when the
\* skill score was rounded up (16.67, 66.67) and the domain score is not
\* 2/3*100, or the skill score was rounded down (33.33, 83.33) and the domain
\* score is 5/6*100.
FloatAbove(skill_score, domain_score) ==
    LET rounded_up == (skill_score.num * 100) % (5000 * skill_score.den)
                        = 1667 * skill_score.den
    IN  \/ rounded_up /\ 3 * domain_score.num # 200 * domain_score.den
        \/ ~rounded_up /\ 6 * domain_score.num = 500 * domain_score.den

\* round(confidence, 2), in hundredths
RoundConfidence(confidence, skill_score, domain_score) ==
    LET n == 100 * confidence.num
        d == confidence.den
    IN  IF IsTie(n, d)
        THEN (n \div d) + (IF FloatAbove(skill_score, domain_score) THEN 1 ELSE 0)
        ELSE RoundHalfUp(n, d)

\* [s.lower() for s in profile.get("skills", [])]
LowerAll(xs) == [i \in 1..Len(xs) |-> Lower(xs[i])]

\* A nullable Text column holds <<>> (NULL, None in Python) or <<s>> for the
\* str s.  Lines 59-61 and 67-82 of score_jobs for one job: the scores, or
\* raised when the job's required_skills is None (None has no split) or a
\* scorer raises.
JobScores(profile, required_skills, role, company) ==
    LET user_skills      == LowerAll(profile.skills)
        user_domains     == profile.domains
        experience_level == profile.experience_level
        text         == required_skills[1]
        required     == StripLowerNonEmpty(SplitComma(text))
        skill_score  == match_skills(user_skills, required).score
        domain_score == domain_match_score(user_domains, text)
        exp_score    == experience_match_score(experience_level, role)
        confidence   == calculate_confidence(skill_score, domain_score, exp_score)
        reputation   == get_reputation_score(company)
    IN  IF required_skills = <<>>
        THEN [raised |-> TRUE, skill_score |-> Rat(0, 0), domain_score |-> Rat(0, 0),
              exp_score |-> Rat(0, 0), confidence |-> Rat(0, 0),
              reputation |-> Rat(0, 0)]
        ELSE [raised |-> Raised(confidence) \/ Raised(reputation),
              skill_score |-> skill_score, domain_score |-> domain_score,
              exp_score |-> exp_score, confidence |-> confidence,
              reputation |-> reputation]

\* The profiles and the job texts the scorers are applied to: those of the
\* inputs above and, for the scorers taken alone, a profile with no domain
\* (the resume text is "git"), a NULL, an empty and a blank required_skills,
\* a role with no seniority word and an empty company name.
ProfileC ==
    [skills           |-> <<<<"g","i","t">>>>,
     domains          |-> <<>>,
     experience_level |-> <<"E","n","t","r","y">>,
     preferred_roles  |-> <<<<"S","o","f","t","w","a","r","e"," ","E","n","g","i","n","e","e","r">>>>]
\* a profile whose one domain no requirements text of the inputs names
ProfileD ==
    [skills           |-> <<<<"p","y","t","h","o","n">>, <<"s","q","l">>>>,
     domains          |-> <<<<"a","i","/","m","l">>>>,
     experience_level |-> <<"E","n","t","r","y">>,
     preferred_roles  |-> <<>>]
\* parse_resume of the text "cybersecurity swift docker etl react nlp
\* python": a skill of each of the seven domains of DOMAIN_KEYWORDS
ProfileE ==
    [skills           |-> <<<<"c">>, <<"c","y","b","e","r","s","e","c","u","r","i","t","y">>, <<"d","o","c","k","e","r">>, <<"e","t","l">>, <<"n","l","p">>,
                            <<"p","y","t","h","o","n">>, <<"r">>, <<"r","e","a","c","t">>, <<"s","w","i","f","t">>>>,
     domains          |-> <<<<"a","i","/","m","l">>, <<"w","e","b"," ","d","e","v","e","l","o","p","m","e","n","t">>, <<"d","a","t","a"," ","e","n","g","i","n","e","e","r","i","n","g">>,
                            <<"d","e","v","o","p","s">>, <<"m","o","b","i","l","e"," ","d","e","v","e","l","o","p","m","e","n","t">>, <<"c","y","b","e","r","s","e","c","u","r","i","t","y">>,
                            <<"b","a","c","k","e","n","d"," ","d","e","v","e","l","o","p","m","e","n","t">>>>,
     experience_level |-> <<"E","n","t","r","y">>,
     preferred_roles  |-> <<<<"S","o","f","t","w","a","r","e"," ","E","n","g","i","n","e","e","r">>>>]
\* a requirements text of seven skills that names six of those domains
SevenSkills ==
    <<"a","i","/","m","l",","," ","w","e","b"," ","d","e","v","e","l","o","p","m","e","n","t",","," ","d","a","t","a"," ","e","n","g","i","n","e","e","r","i","n","g",","," ","d","e","v","o","p","s",","," ","m","o","b","i","l","e"," ","d","e","v","e","l","o","p","m","e","n","t",","," ","c","y","b","e","r","s","e","c","u","r","i","t","y",","," ","d","o","c","k","e","r">>
ScoredProfiles == Resumes \cup {ProfileC, ProfileD, ProfileE}
ScoredRequired ==
    {<<JoinCommaSpace(build_search_keywords(p))>> : p \in Resumes}
        \cup {<<>>, <<<<>>>>, <<<<" ",","," ">>>>,
              <<<<"g","i","t",","," ","d","o","c","k","e","r">>>>, <<<<"p","y","t","h","o","n",","," ","s","q","l",","," ","d","o","c","k","e","r">>>>,
              <<SevenSkills>>}
ScoredRoles ==
    {l.role : l \in Listings} \cup {<<"D","a","t","a"," ","A","n","a","l","y","s","t">>, <<"I","n","t","e","r","n"," ","-"," ","D","a","t","a">>}
ScoredCompanies == {l.company : l \in Listings} \cup {<<>>}

\* JobScores as a table over those
ScoreTable ==
    [profile \in ScoredProfiles |-> [required_skills \in ScoredRequired |->
        [role \in ScoredRoles |-> [company \in ScoredCompanies |->
            JobScores(profile, required_skills, role, company)]]]]

\* Lines 85, 86 and the right-hand side of line 90: the two scores rounded,
\* in hundredths, and the category of the confidence
RoundedScores(s) ==
    IF s.raised
    THEN [raised |-> TRUE, confidence_score |-> 0, reputation_score |-> 0,
          category |-> "none"]
    ELSE [raised           |-> FALSE,
          confidence_score |-> RoundConfidence(s.confidence, s.skill_score,
                                               s.domain_score),
          reputation_score |-> Round2(s.reputation).num,
          category         |-> categorize(s.confidence)]

\* the scores of a job with five points of reputation taken off for a
\* Senior candidate
ComputedScoresBiased(profile, job) ==
    [RoundedScores(ScoreTable[profile][job.required_skills][job.role][job.company])
        EXCEPT !.reputation_score =
                  IF profile.experience_level = <<"S","e","n","i","o","r">> THEN @ - 500 ELSE @]

\* Lines 67-86 and the right-hand side of line 90 for one job: what the body
\* of the loop computes
ComputedScores(profile, job) ==
    RoundedScores(ScoreTable[profile][job.required_skills][job.role][job.company])

\* WriteScores with line 89 left out: the category is written whatever the
\* status is
WriteScoresOverwriting(job, c) ==
    IF c.raised THEN [raised |-> TRUE, job |-> job]
    ELSE [raised |-> FALSE,
          job |-> [job EXCEPT !.confidence_score = c.confidence_score,
                              !.reputation_score = c.reputation_score,
                              !.status = c.category]]

\* WriteScores that gives a category to the rows still New only
WriteScoresNewOnly(job, c) ==
    IF c.raised THEN [raised |-> TRUE, job |-> job]
    ELSE [raised |-> FALSE,
          job |-> [job EXCEPT
             !.confidence_score = c.confidence_score,
             !.reputation_score = c.reputation_score,
             !.status = IF job.status = "New" THEN c.category ELSE job.status]]

\* WriteScores with the category taken of the confidence the row holds, not
\* of the one just computed
WriteScoresStale(job, c) ==
    IF c.raised THEN [raised |-> TRUE, job |-> job]
    ELSE [raised |-> FALSE,
          job |-> [job EXCEPT
             !.confidence_score = c.confidence_score,
             !.reputation_score = c.reputation_score,
             !.status = IF job.status \notin MANUAL_STATUSES
                        THEN categorize(FromHundredths(job.confidence_score))
                        ELSE job.status]]

\* Lines 85-90: the assignments to the ORM object, given what lines 67-82
\* computed (c); raised when they raised
WriteScores(job, c) ==
    IF c.raised THEN [raised |-> TRUE, job |-> job]
    ELSE [raised |-> FALSE,
          job |-> [job EXCEPT
             !.confidence_score = c.confidence_score,
             !.reputation_score = c.reputation_score,
             !.status = IF job.status \notin MANUAL_STATUSES
                        THEN c.category
                        ELSE job.status]]

\* The body of the loop of score_jobs for one job (lines 67-92): the ORM
\* object after it, and whether the body raised.
ScoreJob(profile, job) == WriteScores(job, ComputedScores(profile, job))

\* the jobs of the list whose body raises
Raising(profile, objs) ==
    {k \in 1..Len(objs) : ScoreJob(profile, objs[k]).raised}

\* the place where the loop stops: the first job whose body raises, or the
\* end of the list
FirstOf(raising, n) ==
    IF raising = {} THEN n + 1
    ELSE CHOOSE k \in raising : \A j \in raising : k <= j

\* LoopUpTo that leaves the last job of the list out
LoopUpToSkipping(profile, objs, stop) ==
    [raised       |-> stop <= Len(objs),
     objs         |-> [k \in 1..Len(objs) |->
                         IF k < stop /\ k < Len(objs)
                         THEN ScoreJob(profile, objs[k]).job
                         ELSE objs[k]],
     scored_count |-> IF objs = <<>> THEN 0 ELSE stop - 2]

\* the loop that stops at `stop`: the jobs before it have been scored and
\* counted, the others not
LoopUpTo(profile, objs, stop) ==
    [raised       |-> stop <= Len(objs),
     objs         |-> [k \in 1..Len(objs) |->
                         IF k < stop THEN ScoreJob(profile, objs[k]).job
                         ELSE objs[k]],
     scored_count |-> stop - 1]

\* for job in jobs: ...; scored_count += 1 (lines 64-92)
ScoreLoop(profile, objs) ==
    LoopUpTo(profile, objs, FirstOf(Raising(profile, objs), Len(objs)))

(***************************************************************************)
(* The SQLAlchemy session: an object loaded by a query keeps the column    *)
(* values it was loaded with; commit() issues, in one transaction, one     *)
(* UPDATE per object, setting only the columns whose value differs from    *)
(* the loaded one.                                                         *)
(***************************************************************************)
\* a commit that writes every column of the object, changed or not
UpdateRowWhole(row, loaded, obj) == obj

UpdateRow(row, loaded, obj) ==
    [row EXCEPT
       !.confidence_score = IF obj.confidence_score # loaded.confidence_score
                            THEN obj.confidence_score ELSE @,
       !.reputation_score = IF obj.reputation_score # loaded.reputation_score
                            THEN obj.reputation_score ELSE @,
       !.status           = IF obj.status # loaded.status THEN obj.status ELSE @,
       !.recruiter_email  = IF obj.recruiter_email # loaded.recruiter_email
                            THEN obj.recruiter_email ELSE @]

\* the table after the UPDATEs of the first n objects of the session
Flush(table, loaded, objs, n) ==
    [k \in 1..Len(table) |->
        IF k <= n /\ k <= Len(objs)
        THEN UpdateRow(table[k], loaded[k], objs[k])
        ELSE table[k]]

\* a rollback that leaves the UPDATEs already issued in the table
RollbackPartial(before, dirty) == dirty

\* a failed flush or commit rolls the transaction back
Rollback(before, dirty) == before

\* The value of e, taken once, is given a name v in an expression F(v) by
\* The({F(v) : v \in {e}}).
The(S) == CHOOSE x \in S : TRUE

\* score_jobs, line 94 to the end: db.commit() of the objects the loop left.
\* fail_at = -1: the commit goes through.  fail_at = n >= 0: the database
\* fails after the UPDATEs of n objects, and the transaction is rolled back.
\* raised: the call is left by an exception (of the loop or of the commit),
\* which no line of score_jobs catches.
ScoreCommit(loop, loaded, table, fail_at) ==
    IF loop.raised
    THEN [raised |-> TRUE, table |-> table, scored_count |-> 0]
    ELSE IF fail_at >= 0
    THEN [raised |-> TRUE,
          table |-> Rollback(table, Flush(table, loaded, loop.objs, fail_at)),
          scored_count |-> 0]
    ELSE [raised |-> FALSE,
          table |-> Flush(table, loaded, loop.objs, Len(loaded)),
          scored_count |-> loop.scored_count]

\* score_jobs(profile, db) on the objects `loaded` that line 63 read, while
\* the table is `table`
score_jobs(profile, loaded, table, fail_at) ==
    The({ScoreCommit(loop, loaded, table, fail_at) :
            loop \in {ScoreLoop(profile, loaded)}})

(***************************************************************************)
(* agents/search_agent.py: search_jobs                                     *)
(***************************************************************************)
\* a jobs table with no unique index on job_hash
UniqueViolationUnchecked(table, items) == FALSE

\* job_hash = Column(String(64), unique=True): the INSERT of a job whose
\* hash a row of the table has raises IntegrityError
UniqueViolation(table, items) ==
    \E i \in 1..Len(items), k \in 1..Len(table) :
        table[k].job_hash = items[i].job_hash

\* Step 3 of search_jobs and its end: db.add of every new job, the commit
\* on the table as it is by then, and `return new_jobs`.  A commit that
\* fails is rolled back and logged; new_jobs is returned either way.
SaveNewJobs(table, items, commit_ok) ==
    [table    |-> IF commit_ok /\ ~UniqueViolation(table, items)
                  THEN table \o NewJobs(items)
                  ELSE Rollback(table, table \o NewJobs(items)),
     new_jobs |-> Len(items)]

\* search_jobs(profile, db): scrape, drop the known hashes, insert, commit.
\* batch: what the portals list; commit_ok: whether the commit goes through.
search_jobs(profile, table, batch, commit_ok) ==
    The({SaveNewJobs(table, items, commit_ok) :
            items \in {NewJobsToScrape([i \in 1..Len(batch) |->
                                          ScrapedTable[profile][batch[i]]],
                                      {}, table)}})

(***************************************************************************)
(* State                                                                   *)
(***************************************************************************)
VARIABLES
    jobs,        \* the jobs table: row k has id k
    profiles,    \* the resume_profiles table, in id order
    resp,        \* what the handler that ran last returned (or logged), and
                 \* (history) whether it delivered an e-mail
    status_by,   \* history: who wrote the status of row k last
    mailed,      \* history: the ids of the jobs an e-mail was delivered for
    run,         \* the pipeline run in flight, when its steps are taken
                 \* one by one (specification SpecRace)
    fn           \* the pure function under test (specification SpecFn)

vars == <<jobs, profiles, resp, status_by, mailed, run, fn>>

NoResp ==
    [op |-> "none", status |-> "none", job |-> 0, new_jobs_count |-> 0,
     scored_count |-> 0, delivered |-> FALSE]

Idle ==
    [kind |-> "none", pc |-> "idle", profile |-> <<>>, items |-> <<>>,
     loaded |-> <<>>, new_jobs |-> 0, scored_count |-> 0, status |-> "none"]

NoFn == [name |-> "none", args |-> <<>>, out |-> <<>>]

Init ==
    /\ jobs = <<>>
    /\ profiles = <<>>
    /\ resp = NoResp
    /\ status_by = <<>>
    /\ mailed = {}
    /\ run = Idle
    /\ fn = NoFn

\* history: the jobs an e-mail was delivered for, after a call of
\* send_cold_email with the result `result`
Delivered(sent, result) ==
    IF result.delivered THEN sent \cup {result.job} ELSE sent

\* history: the writer of a status
WrittenBy(by, before, after, who) ==
    [k \in 1..Len(after) |->
        IF k > Len(before) THEN "ingest"
        ELSE IF after[k].status # before[k].status THEN who ELSE by[k]]

(***************************************************************************)
(* routers/resume_router.py, routers/jobs_router.py: the profile           *)
(***************************************************************************)
\* json.dumps / json.loads of a list of str: the text carries the list
json_dumps(x) == <<"json", x>>
json_loads(text) == text[2]

\* POST /upload-resume adding a row at every upload
UploadResumeAppending(profile) ==
    /\ resp = NoResp
    /\ profiles' =
         Append(profiles, [skills           |-> json_dumps(profile.skills),
                           domains          |-> json_dumps(profile.domains),
                           experience_level |-> profile.experience_level,
                           preferred_roles  |-> json_dumps(profile.preferred_roles)])
    /\ resp' = [NoResp EXCEPT !.op = "upload_resume", !.status = "ok"]
    /\ UNCHANGED <<jobs, status_by, mailed, run, fn>>

\* POST /upload-resume: upsert of the one profile row
UploadResume(profile) ==
    /\ resp = NoResp
    /\ profiles' =
         LET row == [skills           |-> json_dumps(profile.skills),
                     domains          |-> json_dumps(profile.domains),
                     experience_level |-> profile.experience_level,
                     preferred_roles  |-> json_dumps(profile.preferred_roles)]
         IN  IF profiles # <<>>
             THEN [profiles EXCEPT ![1] = row]
             ELSE Append(profiles, row)
    /\ resp' = [NoResp EXCEPT !.op = "upload_resume", !.status = "ok"]
    /\ UNCHANGED <<jobs, status_by, mailed, run, fn>>

\* _get_profile (and the same lines of _daily_job): None is <<>>, a dict d
\* is <<d>>
get_profile(table) ==
    IF table = <<>> THEN <<>>
    ELSE <<[skills           |-> json_loads(table[1].skills),
            domains          |-> json_loads(table[1].domains),
            experience_level |-> table[1].experience_level,
            preferred_roles  |-> json_loads(table[1].preferred_roles)]>>

\* `if not profile:` of run_search, `if not profile_row:` of _daily_job
NoProfile(profile) == profile = <<>>

(***************************************************************************)
(* agents/email_agent.py: send_cold_email                                  *)
(***************************************************************************)
\* the two kinds of object the callers pass as `db` and `profile`
Session == [type |-> "Session"]
Dict(d) == [type |-> "dict", value |-> d]

\* .filter(Job.status.in_(["High Priority", "Good Match"]))
\* .order_by(Job.confidence_score.desc()).first(): a row of the highest
\* score among the eligible ones (SQL leaves the order of equal scores open)
FirstEligible(table) ==
    LET eligible == {k \in 1..Len(table) :
                        table[k].status \in {"High Priority", "Good Match"}}
    IN  {k \in eligible :
            \A j \in eligible : table[k].confidence_score >= table[j].confidence_score}

\* send_cold_email(db, profile, job_id, to_email).  first: the row the
\* fallback query returns (0: none).  gmail: what the Gmail API and the
\* commit after it do: "sent", "auth_error" (no service), "error" (the send
\* raises) or "commit_error" (the send returns and db.commit() of line 232
\* raises, which the same `except` catches).  Returns the result, the job it
\* is about and the table afterwards; raised: the call left by an
\* exception; delivered (history): the Gmail API accepted the message.
send_cold_email(db, profile, table, job_id, to_email, first, gmail) ==
    IF db.type # "Session"
    THEN [raised |-> TRUE, status |-> "AttributeError", job |-> 0, table |-> table,
          delivered |-> FALSE]
    ELSE LET job == IF job_id # 0
                    THEN (IF job_id \in 1..Len(table) THEN job_id ELSE 0)
                    ELSE first
         IN  IF job = 0
             THEN [raised |-> FALSE, status |-> "no_jobs", job |-> 0, table |-> table,
                   delivered |-> FALSE]
             ELSE LET recipient == IF to_email # "" THEN to_email
                                   ELSE table[job].recruiter_email
                  IN  IF recipient = ""
                      THEN [raised |-> FALSE, status |-> "no_email", job |-> job,
                            table |-> table, delivered |-> FALSE]
                      ELSE IF gmail = "auth_error"
                      THEN [raised |-> FALSE, status |-> "auth_error", job |-> job,
                            table |-> table, delivered |-> FALSE]
                      ELSE IF gmail = "error"
                      THEN [raised |-> FALSE, status |-> "error", job |-> job,
                            table |-> table, delivered |-> FALSE]
                      ELSE IF gmail = "commit_error"
                      THEN [raised |-> FALSE, status |-> "error", job |-> job,
                            table |-> Rollback(table, [table EXCEPT
                                                         ![job].status = "Emailed"]),
                            delivered |-> TRUE]
                      ELSE [raised |-> FALSE, status |-> "sent", job |-> job,
                            table |-> [table EXCEPT ![job].status = "Emailed"],
                            delivered |-> TRUE]

GmailOutcomes == {"sent", "auth_error", "error", "commit_error"}
FirstChoices(table) == IF FirstEligible(table) = {} THEN {0} ELSE FirstEligible(table)

(***************************************************************************)
(* The handlers, each from its request to its response.  A client sends    *)
(* its requests one after the other: a handler runs when the response of   *)
(* the last one has been taken.                                            *)
(***************************************************************************)
\* a response that does not tell the missing profile
NoProfileIgnored(op) == [NoResp EXCEPT !.op = op, !.status = "ok"]

\* run_search, line 41 ({"error": "No resume profile found. ..."}),
\* trigger_send_email, line 197 (the same), _daily_job, lines 32-33 (the
\* warning logged before `return`)
NoProfileResponse(op) == [NoResp EXCEPT !.op = op, !.status = "no_profile"]

\* run_search, lines 46-50: the response after score_jobs, or the HTTP 500
\* the framework makes of its exception
RunSearchReturn(searched, scored) ==
    /\ jobs' = scored.table
    /\ status_by' = WrittenBy(status_by, jobs, scored.table, "score")
    /\ UNCHANGED mailed
    /\ resp' = IF scored.raised
               THEN [NoResp EXCEPT !.op = "run_search", !.status = "error"]
               ELSE [NoResp EXCEPT !.op = "run_search", !.status = "ok",
                                   !.new_jobs_count = searched.new_jobs,
                                   !.scored_count = scored.scored_count]

\* run_search, line 44: score_jobs on what db.query(Job).all() reads after
\* search_jobs, in the same session
RunSearchScore(profile, searched) ==
    \E fail_at \in (-1)..Len(searched.table) :
        \E scored \in {score_jobs(profile, searched.table, searched.table, fail_at)} :
            RunSearchReturn(searched, scored)

\* POST /run-search
RunSearch(batch, commit_ok) ==
    /\ resp = NoResp
    /\ IF NoProfile(get_profile(profiles))
       THEN /\ resp' = NoProfileResponse("run_search")
            /\ UNCHANGED <<jobs, status_by, mailed>>
       ELSE \E searched \in {search_jobs(get_profile(profiles)[1], jobs, batch,
                                         commit_ok)} :
               RunSearchScore(get_profile(profiles)[1], searched)
    /\ UNCHANGED <<profiles, run, fn>>

\* _daily_job, lines 51-55: what is logged after send_cold_email
DailyJobReturn(searched, scored, result) ==
    /\ jobs' = result.table
    /\ status_by' = WrittenBy(WrittenBy(status_by, jobs, scored.table, "score"),
                              scored.table, result.table, "email")
    /\ mailed' = Delivered(mailed, result)
    /\ resp' = [NoResp EXCEPT
                  !.op = "daily_job",
                  !.status = IF result.raised THEN "email_error" ELSE result.status,
                  !.job = result.job,
                  !.delivered = result.delivered,
                  !.new_jobs_count = searched.new_jobs,
                  !.scored_count = scored.scored_count]

\* _daily_job, line 51: result = send_cold_email(profile, db), the profile
\* dict in the place of db and the session in the place of profile.
\* `except Exception` logs whatever a step raises.
DailyJobEmail(profile, searched, scored) ==
    IF scored.raised
    THEN /\ jobs' = scored.table
         /\ status_by' = WrittenBy(status_by, jobs, scored.table, "score")
         /\ UNCHANGED mailed
         /\ resp' = [NoResp EXCEPT !.op = "daily_job", !.status = "error"]
    ELSE \E first \in FirstChoices(scored.table), gmail \in GmailOutcomes :
            \E result \in {send_cold_email(Dict(profile), Session, scored.table,
                                            0, "", first, gmail)} :
                DailyJobReturn(searched, scored, result)

\* _daily_job, line 47
DailyJobScore(profile, searched) ==
    \E fail_at \in (-1)..Len(searched.table) :
        \E scored \in {score_jobs(profile, searched.table, searched.table, fail_at)} :
            DailyJobEmail(profile, searched, scored)

\* _daily_job
DailyJob(batch, commit_ok) ==
    /\ resp = NoResp
    /\ IF NoProfile(get_profile(profiles))
       THEN /\ resp' = NoProfileResponse("daily_job")
            /\ UNCHANGED <<jobs, status_by, mailed>>
       ELSE \E searched \in {search_jobs(get_profile(profiles)[1], jobs, batch,
                                         commit_ok)} :
               DailyJobScore(get_profile(profiles)[1], searched)
    /\ UNCHANGED <<profiles, run, fn>>

\* trigger_send_email, lines 199-211
TriggerSendEmailReturn(result) ==
    /\ jobs' = result.table
    /\ status_by' = WrittenBy(status_by, jobs, result.table, "email")
    /\ mailed' = Delivered(mailed, result)
    /\ resp' = [NoResp EXCEPT !.op = "send_email", !.status = result.status,
                              !.job = result.job,
                              !.delivered = result.delivered]

\* POST /send-email
TriggerSendEmail(job_id, to_email, first, gmail) ==
    /\ resp = NoResp
    /\ IF NoProfile(get_profile(profiles))
       THEN /\ resp' = NoProfileResponse("send_email")
            /\ UNCHANGED <<jobs, status_by, mailed>>
       ELSE \E result \in {send_cold_email(Session, Dict(get_profile(profiles)[1]),
                                           jobs, job_id,
                                           IF job_id # 0 THEN to_email ELSE "",
                                           first, gmail)} :
               TriggerSendEmailReturn(result)
    /\ UNCHANGED <<profiles, run, fn>>

\* PUT /update-status/{job_id}
UpdateStatus(job_id, status) ==
    /\ resp = NoResp
    /\ IF job_id \notin 1..Len(jobs)
       THEN /\ resp' = [NoResp EXCEPT !.op = "update_status",
                                      !.status = "not_found", !.job = job_id]
            /\ UNCHANGED <<jobs, status_by, mailed>>
       ELSE /\ jobs' = [jobs EXCEPT ![job_id].status = status]
            /\ status_by' = [status_by EXCEPT ![job_id] = "human"]
            /\ UNCHANGED mailed
            /\ resp' = [NoResp EXCEPT !.op = "update_status", !.status = "ok",
                                      !.job = job_id]
    /\ UNCHANGED <<profiles, run, fn>>

\* PUT /update-recruiter-email/{job_id}
UpdateRecruiterEmail(job_id, email) ==
    /\ resp = NoResp
    /\ IF job_id \notin 1..Len(jobs)
       THEN /\ resp' = [NoResp EXCEPT !.op = "update_recruiter_email",
                                      !.status = "not_found", !.job = job_id]
            /\ UNCHANGED jobs
       ELSE /\ jobs' = [jobs EXCEPT ![job_id].recruiter_email = email]
            /\ resp' = [NoResp EXCEPT !.op = "update_recruiter_email",
                                      !.status = "ok", !.job = job_id]
    /\ UNCHANGED <<profiles, status_by, mailed, run, fn>>

\* the client takes the response
Return ==
    /\ resp # NoResp
    /\ resp' = NoResp
    /\ UNCHANGED <<jobs, profiles, status_by, mailed, run, fn>>

JobIds == 1..(Len(jobs) + 1)

Next ==
    \/ \E profile \in Resumes : UploadResume(profile)
    \/ \E batch \in Batches, commit_ok \in BOOLEAN : RunSearch(batch, commit_ok)
    \/ \E batch \in Batches, commit_ok \in BOOLEAN : DailyJob(batch, commit_ok)
    \/ \E job_id \in {0} \cup JobIds, to_email \in {""} \cup EmailInputs,
          first \in FirstChoices(jobs), gmail \in GmailOutcomes :
          TriggerSendEmail(job_id, to_email, first, gmail)
    \/ \E job_id \in JobIds, status \in StatusInputs : UpdateStatus(job_id, status)
    \/ \E job_id \in JobIds, email \in EmailInputs : UpdateRecruiterEmail(job_id, email)
    \/ Return

Spec == Init /\ [][Next]_vars

(***************************************************************************)
(* The daily job in its own thread and session, step by step, while the    *)
(* handlers of the API serve a client (scheduler/daily_runner.py).  Each   *)
(* step is one statement of _daily_job that reads or writes the database.  *)
(***************************************************************************)
\* the longest list of listings the search of the step-by-step run scrapes
MaxRaceBatch == 1
\* what the portals list while it runs
RaceListings == {Listing1}
RaceBatches == UNION {[1..n -> RaceListings] : n \in 0..MaxRaceBatch}

\* _daily_job, lines 27-40: the session, the profile row, the profile dict
DailyBegin ==
    /\ run = Idle
    /\ run' = IF NoProfile(get_profile(profiles))
              THEN [Idle EXCEPT !.kind = "daily_job", !.pc = "done",
                                !.status = "no_profile"]
              ELSE [Idle EXCEPT !.kind = "daily_job", !.pc = "search",
                                !.profile = get_profile(profiles)[1]]
    /\ UNCHANGED <<jobs, profiles, resp, status_by, mailed, fn>>

\* _daily_job, line 43, search_jobs lines 544-578: the scrape, and Step 1
\* on the table as it is then
DailySearchFilter(batch) ==
    /\ run.pc = "search"
    /\ run' = [run EXCEPT
                 !.pc = "save",
                 !.items = NewJobsToScrape([i \in 1..Len(batch) |->
                                              ScrapedTable[run.profile][batch[i]]],
                                           {}, jobs)]
    /\ UNCHANGED <<jobs, profiles, resp, status_by, mailed, fn>>

\* search_jobs, lines 594-620: Step 3 and the commit, after the e-mail
\* addresses of Step 2 have been fetched
DailySearchSave(commit_ok) ==
    /\ run.pc = "save"
    /\ \E searched \in {SaveNewJobs(jobs, run.items, commit_ok)} :
          /\ jobs' = searched.table
          /\ status_by' = WrittenBy(status_by, jobs, searched.table, "score")
          /\ UNCHANGED mailed
          /\ run' = [run EXCEPT !.pc = "score", !.new_jobs = searched.new_jobs]
    /\ UNCHANGED <<profiles, resp, fn>>

\* score_jobs, line 63: jobs = db.query(Job).all()
DailyScoreLoad ==
    /\ run.pc = "score"
    /\ run' = [run EXCEPT !.pc = "loaded", !.loaded = jobs]
    /\ UNCHANGED <<jobs, profiles, resp, status_by, mailed, fn>>

\* score_jobs, lines 66-96: the loop on the loaded objects and db.commit()
\* on the table as it is by then
DailyScoreCommit(fail_at) ==
    /\ run.pc = "loaded"
    /\ \E scored \in {ScoreCommit(ScoreLoop(run.profile, run.loaded), run.loaded,
                                  jobs, fail_at)} :
          /\ jobs' = scored.table
          /\ status_by' = WrittenBy(status_by, jobs, scored.table, "score")
          /\ UNCHANGED mailed
          /\ run' = IF scored.raised
                    THEN [run EXCEPT !.pc = "done", !.status = "error"]
                    ELSE [run EXCEPT !.pc = "email",
                                     !.scored_count = scored.scored_count]
    /\ UNCHANGED <<profiles, resp, fn>>

\* _daily_job, lines 51-55: send_cold_email(profile, db) and what is logged
DailyEmail(first, gmail) ==
    /\ run.pc = "email"
    /\ \E result \in {send_cold_email(Dict(run.profile), Session, jobs, 0, "",
                                      first, gmail)} :
          /\ jobs' = result.table
          /\ status_by' = WrittenBy(status_by, jobs, result.table, "email")
          /\ mailed' = Delivered(mailed, result)
          /\ run' = [run EXCEPT
                        !.pc = "done",
                        !.status = IF result.raised THEN "email_error"
                                   ELSE result.status]
    /\ UNCHANGED <<profiles, resp, fn>>

\* _daily_job, lines 56-59: db.close(), the thread ends
DailyEnd ==
    /\ run.pc = "done"
    /\ run' = Idle
    /\ UNCHANGED <<jobs, profiles, resp, status_by, mailed, fn>>

NextRace ==
    \/ \E profile \in Resumes : UploadResume(profile)
    \/ DailyBegin
    \/ \E batch \in RaceBatches : DailySearchFilter(batch)
    \/ \E commit_ok \in BOOLEAN : DailySearchSave(commit_ok)
    \/ \E batch \in RaceBatches, commit_ok \in BOOLEAN : RunSearch(batch, commit_ok)
    \/ DailyScoreLoad
    \/ \E fail_at \in (-1)..Len(run.loaded) : DailyScoreCommit(fail_at)
    \/ \E first \in FirstChoices(jobs), gmail \in GmailOutcomes : DailyEmail(first, gmail)
    \/ DailyEnd
    \/ \E job_id \in {0} \cup JobIds, to_email \in {""} \cup EmailInputs,
          first \in FirstChoices(jobs), gmail \in GmailOutcomes :
          TriggerSendEmail(job_id, to_email, first, gmail)
    \/ \E job_id \in JobIds, status \in StatusInputs : UpdateStatus(job_id, status)
    \/ \E job_id \in JobIds, email \in EmailInputs : UpdateRecruiterEmail(job_id, email)
    \/ Return

SpecRace == Init /\ [][NextRace]_vars

(***************************************************************************)
(* The scorers taken alone: a call is drawn with its arguments, and the    *)
(* function is applied to them.  fn.out is <<>> before the call returns    *)
(* and <<value>> after.                                                    *)
(***************************************************************************)
\* the confidences _categorize is called with: the thresholds, the values
\* next to them, the ends of the scale, and an unrounded 83.335
CategorizeInputs ==
    {FromInt(0), Rat(5999, 100), Rat(6000, 100), Rat(6001, 100), FromInt(70),
     Rat(7999, 100), Rat(8000, 100), Rat(8001, 100), Rat(83335, 1000),
     FromInt(100)}

\* the scores calculate_confidence is called with.  Skill scores are
\* rounded to two decimals: the ends of the scale, the neutral 50.0, 16.67
\* and 66.67.  Domain scores are m/n*100: the ends, the neutral 50.0, 1/3
\* and 2/3 of 100.  Experience scores: those of the rule table, and 0.
SkillInputs ==
    {FromInt(0), Rat(1667, 100), FromInt(50), Rat(6667, 100), FromInt(100)}
DomainInputs ==
    {FromInt(0), Rat(100, 3), FromInt(50), Rat(200, 3), FromInt(100)}
ExperienceInputs ==
    {FromInt(0), FromInt(50), FromInt(60), FromInt(80), FromInt(100)}

\* A row of the jobs table as the schema of models.py allows it: company
\* and role are NOT NULL, required_skills is a nullable Text.
StoredJob(company, role, required_skills) ==
    [company          |-> company,
     role             |-> role,
     required_skills  |-> required_skills,
     link             |-> <<>>,
     confidence_score |-> 0,
     reputation_score |-> 0,
     status           |-> "New",
     source           |-> "Unknown",
     job_hash         |-> generate_hash(company, role, <<>>),
     recruiter_email  |-> ""]

\* the stored rows score_jobs is called on: a scraped one, one whose
\* required_skills is the empty str, one where it is blank between commas,
\* one where it is NULL, one with three skills and an intern role, and one
\* with seven skills and an intern role
StoredJobs ==
    {StoredJob(Listing1.company, Listing1.role,
               <<JoinCommaSpace(build_search_keywords(ProfileA))>>),
     StoredJob(Listing2.company, <<"D","a","t","a"," ","A","n","a","l","y","s","t">>, <<<<>>>>),
     StoredJob(<<>>, Listing2.role, <<<<" ",","," ">>>>),
     StoredJob(Listing2.company, Listing1.role, <<>>),
     StoredJob(Listing2.company, <<"I","n","t","e","r","n"," ","-"," ","D","a","t","a">>,
               <<<<"p","y","t","h","o","n",","," ","s","q","l",","," ","d","o","c","k","e","r">>>>),
     StoredJob(Listing3.company, <<"I","n","t","e","r","n"," ","-"," ","D","a","t","a">>, <<SevenSkills>>)}

\* the longest jobs table score_jobs is called on
MaxStored == 2
StoredTables == UNION {[1..n -> StoredJobs] : n \in 0..MaxStored}

\* the skill entries match_skills is called with: one skill in two casings
\* and with blanks around it, two more skills, and a blank entry
SkillEntries ==
    {<<"P","y","t","h","o","n">>, <<" ","p","y","t","h","o","n"," ">>, <<"S","Q","L">>, <<"d","o","c","k","e","r">>, <<" ">>}

\* the longest user_skills and required_skills lists match_skills is called
\* with
MaxUserSkills == 2
MaxRequiredSkills == 3
UserSkillLists == UNION {[1..n -> SkillEntries] : n \in 0..MaxUserSkills}
RequiredSkillLists == UNION {[1..n -> SkillEntries] : n \in 0..MaxRequiredSkills}

\* the domain labels and the requirements texts _domain_match_score is
\* called with: labels in several casings, a text that names none of them,
\* the empty text, and texts that name one and two of them in other casings
DomainLabels ==
    {<<"A","I","/","M","L">>, <<"d","a","t","a"," ","e","n","g","i","n","e","e","r","i","n","g">>, <<"C","y","b","e","r","s","e","c","u","r","i","t","y">>}
RequirementTexts ==
    {<<>>, <<"p","y","t","h","o","n",","," ","s","q","l",","," ","d","o","c","k","e","r">>, <<"P","y","t","h","o","n",","," ","a","i","/","m","l">>,
     <<"D","a","t","a"," ","E","n","g","i","n","e","e","r","i","n","g",","," ","C","Y","B","E","R","S","E","C","U","R","I","T","Y">>}

\* the longest profile_domains list _domain_match_score is called with
MaxDomains == 3
DomainLists == UNION {[1..n -> DomainLabels] : n \in 0..MaxDomains}

\* the levels detect_experience_level returns, and the role titles
\* _experience_match_score is called with: one per keyword family and
\* casing, one with a keyword of each family, one with none
ExperienceLevels == {<<"E","n","t","r","y">>, <<"M","i","d">>, <<"S","e","n","i","o","r">>}
RoleTitles ==
    {<<"M","L"," ","I","n","t","e","r","n">>, <<"J","U","N","I","O","R"," ","D","e","v","e","l","o","p","e","r">>, <<"G","r","a","d","u","a","t","e"," ","T","r","a","i","n","e","e">>,
     <<"F","r","e","s","h","e","r"," ","-"," ","Q","A">>, <<"S","e","n","i","o","r"," ","S","t","a","f","f"," ","E","n","g","i","n","e","e","r">>, <<"T","e","a","m"," ","L","e","a","d">>,
     <<"P","r","i","n","c","i","p","a","l"," ","A","r","c","h","i","t","e","c","t">>, <<"S","e","n","i","o","r"," ","I","n","t","e","r","n">>, <<"D","a","t","a"," ","A","n","a","l","y","s","t">>}

\* the company names get_reputation_score is called with: names of each
\* tier in several casings and with blanks around them, names with keywords
\* of two tiers, names with none, and the empty name
CompanyNames ==
    {<<"G","o","o","g","l","e"," ","V","e","n","t","u","r","e","s","-","b","a","c","k","e","d"," ","S","t","a","r","t","u","p">>, <<" "," ","G","O","O","G","L","E"," ">>, <<"M","e","t","a">>,
     <<"A","m","a","z","o","n">>, <<"I","n","f","o","s","y","s"," ","L","t","d">>, <<"I","B","M"," ","V","e","n","t","u","r","e"," ","S","t","u","d","i","o">>,
     <<"D","e","l","o","i","t","t","e"," ","x"," ","O","p","e","n","A","I">>, <<"S","e","r","i","e","s"," ","A"," ","F","i","n","t","e","c","h">>, <<"Z","e","d"," ","C","o","r","p">>, <<>>}

FnCalls ==
    {[name |-> "categorize", args |-> <<c>>, out |-> <<>>] : c \in CategorizeInputs}
    \cup {[name |-> "calculate_confidence", args |-> <<s, d, e>>, out |-> <<>>] :
             s \in SkillInputs, d \in DomainInputs, e \in ExperienceInputs}
    \cup {[name |-> "score_jobs", args |-> <<profile, table>>, out |-> <<>>] :
             profile \in ScoredProfiles, table \in StoredTables}
    \cup {[name |-> "match_skills", args |-> <<u, r>>, out |-> <<>>] :
             u \in UserSkillLists, r \in RequiredSkillLists}
    \cup {[name |-> "domain_match_score", args |-> <<ds, text>>, out |-> <<>>] :
             ds \in DomainLists, text \in RequirementTexts}
    \cup {[name |-> "experience_match_score", args |-> <<level, role>>, out |-> <<>>] :
             level \in ExperienceLevels, role \in RoleTitles}
    \cup {[name |-> "get_reputation_score", args |-> <<company>>, out |-> <<>>] :
             company \in CompanyNames}

InitFn ==
    /\ jobs = <<>>
    /\ profiles = <<>>
    /\ resp = NoResp
    /\ status_by = <<>>
    /\ mailed = {}
    /\ run = Idle
    /\ fn \in FnCalls

\* _categorize(confidence)
CallCategorize ==
    /\ fn.name = "categorize" /\ fn.out = <<>>
    /\ fn' = [fn EXCEPT !.out = <<categorize(fn.args[1])>>]
    /\ UNCHANGED <<jobs, profiles, resp, status_by, mailed, run>>

\* calculate_confidence(skill_match, domain_match, experience_match)
CallCalculateConfidence ==
    /\ fn.name = "calculate_confidence" /\ fn.out = <<>>
    /\ fn' = [fn EXCEPT
                !.out = <<calculate_confidence(fn.args[1], fn.args[2], fn.args[3])>>]
    /\ UNCHANGED <<jobs, profiles, resp, status_by, mailed, run>>

\* score_jobs(profile, db) on a database whose jobs table is fn.args[2] and
\* whose commit goes through
CallScoreJobs ==
    /\ fn.name = "score_jobs" /\ fn.out = <<>>
    /\ \E scored \in {score_jobs(fn.args[1], fn.args[2], fn.args[2], -1)} :
          fn' = [fn EXCEPT !.out = <<scored>>]
    /\ UNCHANGED <<jobs, profiles, resp, status_by, mailed, run>>

\* match_skills(user_skills, required_skills)
CallMatchSkills ==
    /\ fn.name = "match_skills" /\ fn.out = <<>>
    /\ \E matched \in {match_skills(fn.args[1], fn.args[2])} :
          fn' = [fn EXCEPT !.out = <<matched>>]
    /\ UNCHANGED <<jobs, profiles, resp, status_by, mailed, run>>

\* _domain_match_score(profile_domains, job_skills_str)
CallDomainMatchScore ==
    /\ fn.name = "domain_match_score" /\ fn.out = <<>>
    /\ \E score \in {domain_match_score(fn.args[1], fn.args[2])} :
          fn' = [fn EXCEPT !.out = <<score>>]
    /\ UNCHANGED <<jobs, profiles, resp, status_by, mailed, run>>

\* _experience_match_score(profile_level, role)
CallExperienceMatchScore ==
    /\ fn.name = "experience_match_score" /\ fn.out = <<>>
    /\ \E score \in {experience_match_score(fn.args[1], fn.args[2])} :
          fn' = [fn EXCEPT !.out = <<score>>]
    /\ UNCHANGED <<jobs, profiles, resp, status_by, mailed, run>>

\* get_reputation_score(company)
CallGetReputationScore ==
    /\ fn.name = "get_reputation_score" /\ fn.out = <<>>
    /\ \E score \in {get_reputation_score(fn.args[1])} :
          fn' = [fn EXCEPT !.out = <<score>>]
    /\ UNCHANGED <<jobs, profiles, resp, status_by, mailed, run>>

NextFn ==
    \/ CallCategorize
    \/ CallCalculateConfidence
    \/ CallScoreJobs
    \/ CallMatchSkills
    \/ CallDomainMatchScore
    \/ CallExperienceMatchScore
    \/ CallGetReputationScore

SpecFn == InitFn /\ [][NextFn]_vars

(***************************************************************************)
(* send_cold_email called again and again without a job_id, the Gmail API  *)
(* working and nothing else writing: the client of POST /send-email sends  *)
(* a request whenever it has taken the last response.                      *)
(***************************************************************************)
\* the ResumeProfile row upload_resume stores for a profile
ProfileRow(profile) ==
    [skills           |-> json_dumps(profile.skills),
     domains          |-> json_dumps(profile.domains),
     experience_level |-> profile.experience_level,
     preferred_roles  |-> json_dumps(profile.preferred_roles)]

\* the jobs table after POST /run-search on an empty table
ScoredSearch(profile, batch) ==
    The({score_jobs(profile, searched.table, searched.table, -1).table :
            searched \in {search_jobs(profile, <<>>, batch, TRUE)}})

\* that table after the client has set a recruiter e-mail for some of the
\* jobs and the status Applied for some
SendVariants(table) ==
    {[k \in 1..Len(table) |->
         [table[k] EXCEPT !.recruiter_email = email[k],
                          !.status = IF applied[k] THEN "Applied" ELSE @]] :
        email \in [1..Len(table) -> {""} \cup EmailInputs],
        applied \in [1..Len(table) -> BOOLEAN]}
SendTables(profile) ==
    UNION {SendVariants(ScoredSearch(profile, batch)) : batch \in Batches}

InitSend ==
    /\ \E profile \in Resumes :
          /\ profiles = <<ProfileRow(profile)>>
          /\ jobs \in SendTables(profile)
    /\ resp = NoResp
    /\ status_by = [k \in 1..Len(jobs) |->
                       IF jobs[k].status = "Applied" THEN "human" ELSE "ingest"]
    /\ mailed = {}
    /\ run = Idle
    /\ fn = NoFn

\* POST /send-email without job_id, the message accepted and the commit done
SendNext ==
    \E first \in FirstChoices(jobs) : TriggerSendEmail(0, "", first, "sent")

NextSend ==
    \/ SendNext
    \/ Return

\* the client keeps calling and keeps taking the responses
SpecSend == InitSend /\ [][NextSend]_vars /\ WF_vars(SendNext) /\ WF_vars(Return)

(***************************************************************************)
(* Properties                                                              *)
(***************************************************************************)
\* the response r is the one of a pipeline run (POST /run-search or the
\* daily job) whose score_jobs returned
PassReturned(r) ==
    r.op \in {"run_search", "daily_job"} /\ r.status \notin {"no_profile", "error"}

\* the response r is the one of a pipeline run whose score_jobs raised
PassFailed(r) == r.op \in {"run_search", "daily_job"} /\ r.status = "error"

\* C1: a job whose status at the start of a scoring pass is Applied,
\* Interview, Rejected, Accepted, Emailed or Not Applied has the same status
\* after the pass, and its confidence_score and reputation_score are the
\* values the pass computed from the profile; whatever ran before.
C1_ManualStatusKept ==
    [][(resp = NoResp /\ PassReturned(resp')) =>
          \A k \in 1..Len(jobs) :
             jobs[k].status \in {"Applied", "Interview", "Rejected", "Accepted",
                                 "Emailed", "Not Applied"} =>
                /\ jobs'[k].status = jobs[k].status
                /\ jobs'[k].confidence_score =
                      ComputedScores(get_profile(profiles)[1], jobs[k]).confidence_score
                /\ jobs'[k].reputation_score =
                      ComputedScores(get_profile(profiles)[1], jobs[k]).reputation_score
       ]_vars

\* C1: a pass has returned, and a job a human set to Applied is still
\* Applied while its confidence is one that categorises as High Priority
C1_Witness ==
    /\ PassReturned(resp)
    /\ \E k \in 1..Len(jobs) :
          /\ jobs[k].status = "Applied" /\ status_by[k] = "human"
          /\ jobs[k].confidence_score = 8334
          /\ categorize(FromHundredths(jobs[k].confidence_score)) = "High Priority"

\* C2: when update_status or send_cold_email commits a status of the manual
\* set for a job after a scoring pass has loaded the jobs and before the
\* pass commits, that status is still the job's status after the pass
\* commits.
C2_RacePreserved ==
    [][(run.pc = "loaded" /\ run'.pc # "loaded") =>
          \A k \in 1..Len(run.loaded) :
             (/\ jobs[k].status # run.loaded[k].status
              /\ jobs[k].status \in {"Applied", "Interview", "Rejected", "Accepted",
                                     "Emailed", "Not Applied"})
                => jobs'[k].status = jobs[k].status
       ]_vars

C4_Idempotent ==
    PassReturned(resp) =>
       \E second \in {score_jobs(get_profile(profiles)[1], jobs, jobs, -1)} :
          /\ ~second.raised
          /\ Len(second.table) = Len(jobs)
          /\ \A k \in 1..Len(jobs) :
                /\ second.table[k].confidence_score = jobs[k].confidence_score
                /\ second.table[k].reputation_score = jobs[k].reputation_score
                /\ second.table[k].status = jobs[k].status

\* C4: a pass has returned on two jobs, the status of one written by the
\* pass
C4_Witness ==
    /\ PassReturned(resp)
    /\ Len(jobs) = 2
    /\ \E k \in 1..Len(jobs) :
          status_by[k] = "score" /\ jobs[k].status = "Good Match"

\* C5: when a scoring pass fails (its loop raises or its commit fails), the
\* confidence_score, reputation_score and status of every job are what they
\* were before the pass: those of the table before the run for the jobs it
\* held, those of the insert (0, 0, New) for the jobs the search of the run
\* added.
C5_AllOrNothing ==
    [][(resp = NoResp /\ PassFailed(resp')) =>
          /\ Len(jobs') >= Len(jobs)
          /\ \A k \in 1..Len(jobs') :
                IF k <= Len(jobs)
                THEN /\ jobs'[k].confidence_score = jobs[k].confidence_score
                     /\ jobs'[k].reputation_score = jobs[k].reputation_score
                     /\ jobs'[k].status = jobs[k].status
                ELSE /\ jobs'[k].confidence_score = 0
                     /\ jobs'[k].reputation_score = 0
                     /\ jobs'[k].status = "New"
       ]_vars

\* C5: a pass has failed on two jobs, one of them scored before and one
\* still as inserted
C5_Witness ==
    /\ PassFailed(resp)
    /\ Len(jobs) = 2
    /\ \E k \in 1..Len(jobs) : jobs[k].status = "New" /\ jobs[k].confidence_score = 0
    /\ \E k \in 1..Len(jobs) : status_by[k] = "score"

\* C6: with no resume profile stored, POST /run-search and the daily job
\* report that no profile was found and leave the jobs table as it is.
C6_NoProfileShortCircuit ==
    [][(/\ resp = NoResp
        /\ resp'.op \in {"run_search", "daily_job"}
        /\ profiles = <<>>)
          => resp'.status = "no_profile" /\ jobs' = jobs
       ]_vars

\* C6: the daily job has run with no profile stored
C6_Witness ==
    /\ resp.op = "daily_job" /\ resp.status = "no_profile"
    /\ profiles = <<>> /\ jobs = <<>>

C8_FullRescore ==
    [][(resp = NoResp /\ PassReturned(resp')) =>
          /\ resp'.scored_count = Len(jobs')
          /\ \A k \in 1..Len(jobs') :
                /\ jobs'[k].confidence_score =
                      ComputedScores(get_profile(profiles)[1], jobs'[k]).confidence_score
                /\ jobs'[k].reputation_score =
                      ComputedScores(get_profile(profiles)[1], jobs'[k]).reputation_score
       ]_vars

\* C8: a pass with the second resume has returned the count 2, and the job
\* at Google, scored 83.34 with the first resume, holds 58.66 and Stretch
C8_Witness ==
    /\ PassReturned(resp)
    /\ resp.scored_count = 2 /\ Len(jobs) = 2
    /\ get_profile(profiles) = <<ProfileB>>
    /\ \E k \in 1..Len(jobs) :
          /\ jobs[k].company = Listing1.company
          /\ jobs[k].confidence_score = 5866
          /\ jobs[k].reputation_score = 9500
          /\ jobs[k].status = "Stretch"

\* C9: _categorize gives High Priority above 80, Good Match from 60 to 80,
\* both included, and Stretch below 60: 80.0 is Good Match, 80.01 High
\* Priority, 60.0 Good Match, 59.99 Stretch.
C9_Categorizer ==
    (fn.name = "categorize" /\ fn.out # <<>>) =>
       LET c   == fn.args[1]
           out == fn.out[1]
       IN  /\ c.num > 80 * c.den => out = "High Priority"
           /\ (60 * c.den <= c.num /\ c.num <= 80 * c.den) => out = "Good Match"
           /\ c.num < 60 * c.den => out = "Stretch"
           /\ c = Rat(8000, 100) => out = "Good Match"
           /\ c = Rat(8001, 100) => out = "High Priority"
           /\ c = Rat(6000, 100) => out = "Good Match"
           /\ c = Rat(5999, 100) => out = "Stretch"

\* C9: _categorize has been called with 80.0 and has returned Good Match
C9_Witness ==
    /\ fn.name = "categorize"
    /\ fn.args = <<Rat(8000, 100)>>
    /\ fn.out = <<"Good Match">>

\* C10: calculate_confidence returns 0.5*skill + 0.3*domain + 0.2*experience,
\* and for inputs from 0 to 100 the result is from 0 to 100.
C10_Confidence ==
    (fn.name = "calculate_confidence" /\ fn.out # <<>>) =>
       LET s   == fn.args[1]
           d   == fn.args[2]
           e   == fn.args[3]
           out == fn.out[1]
       IN  /\ out.den > 0
           /\ 10 * out.num * s.den * d.den * e.den
                 = out.den * (  5 * s.num * d.den * e.den
                              + 3 * d.num * s.den * e.den
                              + 2 * e.num * s.den * d.den)
           /\ (\A x \in {s, d, e} : 0 <= x.num /\ x.num <= 100 * x.den)
                 => (0 <= out.num /\ out.num <= 100 * out.den)

\* C10: calculate_confidence has been called with 100, 100 and 100 and has
\* returned 100
C10_Witness ==
    /\ fn.name = "calculate_confidence"
    /\ fn.args = <<FromInt(100), FromInt(100), FromInt(100)>>
    /\ fn.out # <<>>
    /\ fn.out[1].num = 100 * fn.out[1].den

\* C11: calculate_confidence is monotone: raising any one of the skill, the
\* domain and the experience score, the other two unchanged, never lowers
\* the confidence it returns.
C11_Monotone ==
    (fn.name = "calculate_confidence" /\ fn.out # <<>>) =>
       LET s   == fn.args[1]
           d   == fn.args[2]
           e   == fn.args[3]
           out == fn.out[1]
       IN  /\ \A x \in SkillInputs :
                 RatGE(x, s) => RatGE(calculate_confidence(x, d, e), out)
           /\ \A x \in DomainInputs :
                 RatGE(x, d) => RatGE(calculate_confidence(s, x, e), out)
           /\ \A x \in ExperienceInputs :
                 RatGE(x, e) => RatGE(calculate_confidence(s, d, x), out)

\* C11: calculate_confidence has returned for 50, 50 and 50, and with the
\* experience score raised to 100 it returns strictly more
C11_Witness ==
    /\ fn.name = "calculate_confidence"
    /\ fn.args = <<FromInt(50), FromInt(50), FromInt(50)>>
    /\ fn.out # <<>>
    /\ RatGT(calculate_confidence(FromInt(50), FromInt(50), FromInt(100)), fn.out[1])

\* C12: match_skills trims and lowercases the entries of both lists, drops
\* the blank ones and compares the two as sets: `common` is the
\* intersection, and when the normalised required set is not empty the
\* score is |common| / |required| * 100 rounded to two decimals; when every
\* required skill is among the user's, the score is 100.0, whatever the
\* blanks, the casing and the repetitions of the lists.
C12_SetMatch ==
    (fn.name = "match_skills" /\ fn.out # <<>>) =>
       LET Norm(xs) == {Lower(Strip(xs[i])) :
                           i \in {j \in 1..Len(xs) : Strip(xs[j]) # <<>>}}
           U   == Norm(fn.args[1])
           R   == Norm(fn.args[2])
           out == fn.out[1]
           h   == out.score.num
           n   == Cardinality(R)
           gap == h * n - 10000 * Cardinality(U \cap R)
       IN  R # {} =>
              /\ out.common = U \cap R
              /\ out.score.den = 100
              /\ -n <= 2 * gap /\ 2 * gap <= n
              /\ R \subseteq U => h = 10000

\* C12: match_skills has returned 100.0 for a required list that repeats a
\* skill in another casing and with blanks around it, and a user list that
\* has the same skills written differently
C12_Witness ==
    /\ fn.name = "match_skills"
    /\ fn.args = << <<<<" ","p","y","t","h","o","n"," ">>, <<"S","Q","L">>>>,
                    <<<<"P","y","t","h","o","n">>, <<" ","p","y","t","h","o","n"," ">>, <<"S","Q","L">>>> >>
    /\ fn.out # <<>>
    /\ fn.out[1].score = Rat(10000, 100)
    /\ fn.out[1].common = {<<"p","y","t","h","o","n">>, <<"s","q","l">>}

\* C13: match_skills returns no common skill and the neutral score 50.0
\* whenever the normalised required set is empty: for an empty required
\* list, and for one that holds only blank entries.
C13_NeutralWhenNothingRequired ==
    (fn.name = "match_skills" /\ fn.out # <<>>) =>
       LET required == fn.args[2]
           out      == fn.out[1]
       IN  (\A i \in 1..Len(required) : required[i] \in {<<>>, <<" ">>}) =>
              /\ out.common = {}
              /\ out.score.den # 0
              /\ out.score.num = 50 * out.score.den

\* C13: match_skills has returned 50.0 and no common skill for a required
\* list of two blank entries and a user who has a skill
C13_Witness ==
    /\ fn.name = "match_skills"
    /\ fn.args = << <<<<"P","y","t","h","o","n">>>>, <<<<" ">>, <<" ">>>> >>
    /\ fn.out = << [common |-> {}, score |-> Rat(5000, 100)] >>

\* C14: _domain_match_score returns 50.0 for a candidate with no domains;
\* otherwise it returns matches / |domains| * 100, where matches counts the
\* domain labels that occur, letter case aside, as a substring of the
\* requirements text; the result lies between 0 and 100.
C14_DomainAffinity ==
    (fn.name = "domain_match_score" /\ fn.out # <<>>) =>
       LET domains == fn.args[1]
           text    == fn.args[2]
           out     == fn.out[1]
           matches == Cardinality({i \in 1..Len(domains) :
                                      Contains(Lower(text), Lower(domains[i]))})
       IN  /\ out.den > 0
           /\ domains = <<>> => out.num = 50 * out.den
           /\ domains # <<>> =>
                 /\ out.num * Len(domains) = 100 * matches * out.den
                 /\ 0 <= out.num /\ out.num <= 100 * out.den

\* C14: _domain_match_score has returned two thirds of 100 for three
\* domains of which the text names two, in another casing
C14_Witness ==
    /\ fn.name = "domain_match_score"
    /\ fn.args = << <<<<"A","I","/","M","L">>, <<"d","a","t","a"," ","e","n","g","i","n","e","e","r","i","n","g">>, <<"C","y","b","e","r","s","e","c","u","r","i","t","y">>>>,
                    <<"D","a","t","a"," ","E","n","g","i","n","e","e","r","i","n","g",","," ","C","Y","B","E","R","S","E","C","U","R","I","T","Y">> >>
    /\ fn.out = <<Rat(200, 3)>>

\* C15: _experience_match_score follows the rule table, the entry keywords
\* first: a title containing intern, junior, trainee or fresher scores 100.0
\* for an Entry candidate and 60.0 for any other; otherwise a title
\* containing senior, lead, principal or staff scores 100.0 for a Senior
\* candidate and 50.0 for any other; otherwise the score is 80.0.  A title
\* with a keyword of each family is scored by the entry rule.
C15_ExperienceRules ==
    (fn.name = "experience_match_score" /\ fn.out # <<>>) =>
       LET level  == fn.args[1]
           title  == Lower(fn.args[2])
           entry  == \E kw \in {<<"i","n","t","e","r","n">>, <<"j","u","n","i","o","r">>, <<"t","r","a","i","n","e","e">>, <<"f","r","e","s","h","e","r">>} :
                        Contains(title, kw)
           senior == \E kw \in {<<"s","e","n","i","o","r">>, <<"l","e","a","d">>, <<"p","r","i","n","c","i","p","a","l">>, <<"s","t","a","f","f">>} :
                        Contains(title, kw)
           out    == fn.out[1]
       IN  /\ (entry /\ level = <<"E","n","t","r","y">>) => out = FromInt(100)
           /\ (entry /\ level # <<"E","n","t","r","y">>) => out = FromInt(60)
           /\ (~entry /\ senior /\ level = <<"S","e","n","i","o","r">>) => out = FromInt(100)
           /\ (~entry /\ senior /\ level # <<"S","e","n","i","o","r">>) => out = FromInt(50)
           /\ (~entry /\ ~senior) => out = FromInt(80)

\* C15: _experience_match_score has returned 100.0 for an Entry candidate
\* and a title that has both an entry and a senior keyword
C15_Witness ==
    /\ fn.name = "experience_match_score"
    /\ fn.args = <<<<"E","n","t","r","y">>, <<"S","e","n","i","o","r"," ","I","n","t","e","r","n">>>>
    /\ fn.out = <<FromInt(100)>>

\* C16: get_reputation_score returns one of 95.0, 85.0, 75.0 and 60.0, by
\* the first tier, in the order Tier-1, Tier-2, Tier-3, one of whose
\* keywords occurs, letter case aside, as a substring of the company name:
\* a name with a Tier-1 and a Tier-3 keyword scores 95.0, a name with no
\* keyword scores 60.0.
C16_ReputationTiers ==
    (fn.name = "get_reputation_score" /\ fn.out # <<>>) =>
       LET name    == Lower(fn.args[1])
           In(kws) == \E i \in 1..Len(kws) : Contains(name, kws[i])
           t1      == In(TIER_1_KEYWORDS)
           t2      == In(TIER_2_KEYWORDS)
           t3      == In(TIER_3_KEYWORDS)
           out     == fn.out[1]
       IN  /\ out \in {FromInt(95), FromInt(85), FromInt(75), FromInt(60)}
           /\ t1 => out = FromInt(95)
           /\ (~t1 /\ t2) => out = FromInt(85)
           /\ (~t1 /\ ~t2 /\ t3) => out = FromInt(75)
           /\ (~t1 /\ ~t2 /\ ~t3) => out = FromInt(60)

\* C16: get_reputation_score has returned 95.0 for a name that has the
\* Tier-1 keyword google and the Tier-3 keywords venture, backed and startup
C16_Witness ==
    /\ fn.name = "get_reputation_score"
    /\ fn.args = <<<<"G","o","o","g","l","e"," ","V","e","n","t","u","r","e","s","-","b","a","c","k","e","d"," ","S","t","a","r","t","u","p">>>>
    /\ fn.out = <<FromInt(95)>>

\* the call of the end-to-end example: score_jobs has returned for the
\* profile with the skills python and sql, the domain ai/ml and the level
\* Entry, on a table whose one job requires "python, sql, docker" for the
\* role "Intern - Data"
ExampleScored ==
    /\ fn.name = "score_jobs"
    /\ fn.args = <<ProfileD, <<StoredJob(Listing2.company, <<"I","n","t","e","r","n"," ","-"," ","D","a","t","a">>,
                                         <<<<"p","y","t","h","o","n",","," ","s","q","l",","," ","d","o","c","k","e","r">>>>)>> >>
    /\ fn.out # <<>>
ExampleScores ==
    ScoreTable[ProfileD][<<<<"p","y","t","h","o","n",","," ","s","q","l",","," ","d","o","c","k","e","r">>>>][<<"I","n","t","e","r","n"," ","-"," ","D","a","t","a">>][Listing2.company]

\* C17, as the specification states it: the example yields the skill score
\* 66.67, the domain score 50.0, the experience score 100.0, the confidence
\* 68.34 and the status Good Match.
C17_ExampleAsStated ==
    ExampleScored =>
       /\ ExampleScores.skill_score = Rat(6667, 100)
       /\ RatEQ(ExampleScores.domain_score, FromInt(50))
       /\ RatEQ(ExampleScores.exp_score, FromInt(100))
       /\ ~fn.out[1].raised
       /\ fn.out[1].table[1].confidence_score = 6834
       /\ fn.out[1].table[1].status = "Good Match"

\* C17, as the code computes it: the example yields the skill score 66.67,
\* the domain score 0.0 (the candidate has a domain, and the requirements
\* text does not name it), the experience score 100.0, the confidence 53.34
\* and the status Stretch.
C17_ExampleAsComputed ==
    ExampleScored =>
       /\ ExampleScores.skill_score = Rat(6667, 100)
       /\ RatEQ(ExampleScores.domain_score, FromInt(0))
       /\ RatEQ(ExampleScores.exp_score, FromInt(100))
       /\ ~fn.out[1].raised
       /\ fn.out[1].scored_count = 1
       /\ fn.out[1].table[1].confidence_score = 5334
       /\ fn.out[1].table[1].status = "Stretch"

\* C17: score_jobs has returned for the example, and the job is a Stretch
\* with the confidence 53.34
C17_Witness ==
    /\ ExampleScored
    /\ fn.out[1].table[1].status = "Stretch"
    /\ fn.out[1].table[1].confidence_score = 5334

\* C18: the reputation score does not depend on the candidate: in every
\* state a scoring pass leaves, a pass with either profile writes to every
\* job the reputation score the job has.
C18_ReputationSameForAll ==
    PassReturned(resp) =>
       \A profile \in Resumes :
          \A rescored \in {score_jobs(profile, jobs, jobs, -1)} :
             /\ ~rescored.raised
             /\ \A k \in 1..Len(jobs) :
                   rescored.table[k].reputation_score = jobs[k].reputation_score

\* C18: a pass has returned, and a job that the two profiles give different
\* confidence scores has the reputation score 95.0
C18_Witness ==
    /\ PassReturned(resp)
    /\ \E k \in 1..Len(jobs) :
          /\ jobs[k].reputation_score = 9500
          /\ \A a \in {score_jobs(ProfileA, jobs, jobs, -1)} :
             \A b \in {score_jobs(ProfileB, jobs, jobs, -1)} :
                /\ a.table[k].confidence_score # b.table[k].confidence_score
                /\ a.table[k].reputation_score = b.table[k].reputation_score

\* C19: in every reachable state the confidence score of every stored job
\* is between 0 and 100, and its reputation score is 0 or one of 60, 75, 85
\* and 95: 0 as long as no pass has scored the job, and one of the four
\* values once a pass has.
C19_ScoreRanges ==
    /\ \A k \in 1..Len(jobs) :
          /\ 0 <= jobs[k].confidence_score /\ jobs[k].confidence_score <= 10000
          /\ jobs[k].reputation_score \in {0, 6000, 7500, 8500, 9500}
          /\ jobs[k].reputation_score = 0 =>
                (jobs[k].confidence_score = 0 /\ status_by[k] # "score")
    /\ PassReturned(resp) =>
          \A k \in 1..Len(jobs) :
             jobs[k].reputation_score \in {6000, 7500, 8500, 9500}

\* C19: a pass has returned and has left one job with the reputation score
\* 95.0 and another with 60.0, both with a confidence score above 0
C19_Witness ==
    /\ PassReturned(resp)
    /\ \E k \in 1..Len(jobs) :
          jobs[k].reputation_score = 9500 /\ jobs[k].confidence_score > 0
    /\ \E k \in 1..Len(jobs) :
          jobs[k].reputation_score = 6000 /\ jobs[k].confidence_score > 0

\* C20: a scoring pass creates no job and deletes none, and leaves every
\* column of every job other than confidence_score, reputation_score and
\* status as it is in the table when the pass commits: company, role,
\* required_skills, link, source, job_hash and recruiter_email.
C20_PassFrame ==
    [][(run.pc = "loaded" /\ run'.pc # "loaded") =>
          /\ Len(jobs') = Len(jobs)
          /\ \A k \in 1..Len(jobs) :
                [jobs'[k] EXCEPT !.confidence_score = jobs[k].confidence_score,
                                 !.reputation_score = jobs[k].reputation_score,
                                 !.status           = jobs[k].status] = jobs[k]]_vars

\* C20: the pass of the daily job has committed the scores of a job whose
\* recruiter_email another request changed after the pass loaded it, and
\* the job has the changed address
C20_Witness ==
    /\ run.pc = "email"
    /\ Len(jobs) >= 1 /\ Len(run.loaded) >= 1
    /\ jobs[1].reputation_score # 0
    /\ jobs[1].recruiter_email = "hr@acme.io"
    /\ run.loaded[1].recruiter_email # "hr@acme.io"

\* C21: the two scores are written by the scoring pass only.  A job is
\* inserted by the search (the save of the daily job's search, before its
\* pass) with the status New and both scores 0; update_status,
\* update_recruiter_email and send_cold_email insert and delete no job and
\* leave both scores of every job as they are.
C21_ScoresOwnedByPass ==
    [][/\ (run.pc = "save" /\ run'.pc = "score") =>
             \A k \in (Len(jobs) + 1)..Len(jobs') :
                /\ jobs'[k].status = "New"
                /\ jobs'[k].confidence_score = 0
                /\ jobs'[k].reputation_score = 0
       /\ (resp = NoResp /\ resp'.op \in {"update_status", "update_recruiter_email",
                                           "send_email"}) =>
             /\ Len(jobs') = Len(jobs)
             /\ \A k \in 1..Len(jobs) :
                   /\ jobs'[k].confidence_score = jobs[k].confidence_score
                   /\ jobs'[k].reputation_score = jobs[k].reputation_score]_vars

\* C21: send_cold_email has sent the mail of a job that a pass had scored,
\* and the job has the scores of the pass
C21_Witness ==
    /\ resp.op = "send_email" /\ resp.status = "sent"
    /\ resp.job \in 1..Len(jobs)
    /\ jobs[resp.job].status = "Emailed"
    /\ jobs[resp.job].confidence_score = 8334
    /\ jobs[resp.job].reputation_score = 9500

\* C22: once a resume has been uploaded, the resume_profiles table holds
\* exactly one row: an upload leaves one row, whatever was stored, and what
\* _get_profile then reads is the skills, domains, experience level and
\* preferred roles of that upload; no other step adds or removes a row.
C22_OneLiveProfile ==
    [][/\ Len(profiles') <= 1
       /\ Len(profiles) = 1 => Len(profiles') = 1
       /\ \A profile \in Resumes :
             UploadResume(profile) =>
                /\ Len(profiles') = 1
                /\ get_profile(profiles') = <<profile>>]_vars

\* C22: the second resume has been uploaded over the first, after a pass
\* that scored a job for the first, and the one row stored is the second
C22_Witness ==
    /\ resp.op = "upload_resume"
    /\ Len(profiles) = 1
    /\ get_profile(profiles) = <<ProfileB>>
    /\ \E k \in 1..Len(jobs) : jobs[k].confidence_score = 8334

\* C23: job_hash is unique.  In every reachable state no two stored jobs
\* have the same job_hash, and the job_hash of a stored job is the
\* fingerprint of its company, role and link: a listing whose fingerprint is
\* stored is not inserted again, by a search that runs after the insert or
\* by one that runs beside it.
C23_UniqueHash ==
    /\ \A j, k \in 1..Len(jobs) :
          jobs[j].job_hash = jobs[k].job_hash => j = k
    /\ \A k \in 1..Len(jobs) :
          jobs[k].job_hash = generate_hash(jobs[k].company, jobs[k].role, jobs[k].link)

\* C23: the search of the daily job found a listing new, another search
\* inserted it before the daily job saved it, and the table holds it once
C23_Witness ==
    /\ run.pc = "score"
    /\ Len(run.items) = 1
    /\ Len(jobs) = 1
    /\ jobs[1].job_hash = run.items[1].job_hash
    /\ jobs[1].confidence_score # 0

\* C24: send_cold_email sets the status of the job it selected to Emailed
\* exactly when the send succeeds: when the Gmail API has accepted the
\* message the job is Emailed, and on every other outcome the status of
\* every job is what it was; no other job is touched.
C24_EmailedIffSent ==
    [][(resp = NoResp /\ resp'.op = "send_email") =>
          /\ Len(jobs') = Len(jobs)
          /\ resp'.delivered =>
                /\ resp'.job \in 1..Len(jobs')
                /\ jobs'[resp'.job].status = "Emailed"
          /\ ~resp'.delivered =>
                \A k \in 1..Len(jobs) : jobs'[k].status = jobs[k].status
          /\ \A k \in 1..Len(jobs) : k # resp'.job => jobs'[k] = jobs[k]]_vars

\* C25: called without a job_id, send_cold_email selects a job of the
\* highest confidence among those with the status High Priority or Good
\* Match, and never a job an e-mail has already been delivered for.
C25_NeverSelectsMailed ==
    [][\A first \in FirstChoices(jobs), gmail \in GmailOutcomes :
          (TriggerSendEmail(0, "", first, gmail) /\ resp'.job # 0) =>
             /\ jobs[resp'.job].status \in {"High Priority", "Good Match"}
             /\ \A k \in 1..Len(jobs) :
                   jobs[k].status \in {"High Priority", "Good Match"} =>
                      jobs[k].confidence_score <= jobs[resp'.job].confidence_score
             /\ resp'.job \notin mailed]_vars

\* C26: with a profile stored, one run of the daily job that gets through
\* its search and its scoring pass has inserted the new jobs, has left no
\* job New, and has then called send_cold_email, which returned a result:
\* when an e-mail went out, it went to a job of the highest confidence among
\* the eligible ones, and that job is Emailed.
C26_DailyPipeline ==
    [][(resp = NoResp /\ resp'.op = "daily_job"
           /\ resp'.status \notin {"no_profile", "error"}) =>
          /\ Len(jobs') >= Len(jobs)
          /\ \A k \in 1..Len(jobs') : jobs'[k].status # "New"
          /\ resp'.status \in {"sent", "no_jobs", "no_email", "auth_error"}
          /\ resp'.status = "sent" =>
                /\ resp'.job \in 1..Len(jobs')
                /\ jobs'[resp'.job].status = "Emailed"
                /\ \A k \in 1..Len(jobs') :
                      jobs'[k].status \in {"High Priority", "Good Match"} =>
                         jobs'[k].confidence_score <= jobs'[resp'.job].confidence_score]_vars

\* C27: what search_jobs returns is what it has added: when a search (of
\* POST /run-search or of the daily job) has returned, every job it
\* reported as new is a row of the jobs table, also when the commit of the
\* batch failed.
C27_ReturnedJobsPersisted ==
    [][(resp = NoResp /\ resp'.op \in {"run_search", "daily_job"}
           /\ resp'.status \notin {"no_profile", "error"}) =>
          Len(jobs') = Len(jobs) + resp'.new_jobs_count]_vars

C29_StatusesAfterPass ==
    [][(resp = NoResp /\ PassReturned(resp')) =>
          \A k \in 1..Len(jobs') :
             /\ jobs'[k].status \in {"High Priority", "Good Match", "Stretch",
                                     "Applied", "Interview", "Rejected",
                                     "Accepted", "Emailed", "Not Applied"}
             /\ (k > Len(jobs)
                   \/ jobs[k].status \notin {"Applied", "Interview", "Rejected",
                                             "Accepted", "Emailed", "Not Applied"})
                   => jobs'[k].status \in {"High Priority", "Good Match", "Stretch"}
       ]_vars

\* C29: a pass has returned on a table of two jobs: it has kept the Applied
\* of one and has replaced the status of the other by a bucket
C29_Witness ==
    /\ PassReturned(resp)
    /\ Len(jobs) = 2
    /\ \E k, j \in 1..Len(jobs) :
          /\ jobs[k].status = "Applied"
          /\ status_by[j] = "score"
          /\ jobs[j].status \in {"High Priority", "Good Match", "Stretch"}

\* C30: when send_cold_email is called again and again without a job_id,
\* the deliveries working and nothing else changing, every job with the
\* status High Priority or Good Match and a recruiter e-mail is eventually
\* Emailed, also when an eligible job of a higher confidence has no
\* recruiter e-mail.
C30_EveryEligibleJobEmailed ==
    \A k \in 1..MaxBatch :
        (/\ k \in 1..Len(jobs)
         /\ jobs[k].status \in {"High Priority", "Good Match"}
         /\ jobs[k].recruiter_email # "")
            ~> (k \in 1..Len(jobs) /\ jobs[k].status = "Emailed")
====
